---- MODULE Spec2Model ----
(***************************************************************************)
(* TechMandates: the Vulnerabilities page (findings list, "Fix Now"        *)
(* workflow, SecurityScanModal), the Versions page (upgrade list,          *)
(* ScanUpdatesModal) and the dashboard's recent-activity feed              *)
(* (useRecentActivity), modelled as one state machine.  Exactly one page   *)
(* is mounted at a time, so Init chooses the page and every action is      *)
(* guarded by it.  An action is the code that runs between two awaits.     *)
(***************************************************************************)
EXTENDS Integers, Sequences, FiniteSets, Bags, TLC

VARIABLES
    page,                    \* the mounted route, or the function or component at work
    \* ---- Vulnerabilities page (RecentActivity.tsx:165-648)
    repositories,            \* useRepositories().repositories
    scannedVulnerabilities,  \* useState list of findings
    isFixingVulnerability,   \* useState<string | null>
    errorDialog,             \* useState {open, error}
    fixInFlight,             \* pending apiClient.fixVulnerability calls
    \* ---- SecurityScanModal (SecurityScanModal.tsx:41-165)
    selectedRepositories,
    isScanning,
    scanProgress,
    progress,
    scanRun,                 \* the locals of the running startSecurityScan
    \* ---- Versions page (Versions.tsx) and ScanUpdatesModal (part_001)
    scannedUpgrades,         \* useState list of upgrades
    isScanUpdatesOpen,       \* the modal's `open` prop
    repositoryUpdates,       \* the modal's per-repository scan state
    updatesScanning,         \* the modal's isScanning
    updatesProgress,         \* the modal's progress
    updatesRun,              \* the locals of the running scanAllRepositories
    \* ---- Dashboard feed (useRecentActivity.ts:17-310)
    user,                    \* useAuth().user
    mountUser,               \* `user` in the render the hook was mounted in
    localVulnerabilities,    \* localStorage 'scannedVulnerabilities'
    localUpgrades,           \* localStorage 'scannedUpgrades'
    scanResults,             \* the scan_results table
    activities,              \* useState feed
    loading,
    error,
    fetchInFlight,           \* fetchRecentActivity calls awaiting the query
    now,                     \* the wall clock, in minutes
    \* ---- security-scan function (supabase/functions/security-scan/index.ts)
    scannerLoadedOn,         \* the day the module (mockVulnerabilities) was evaluated
    \* ---- Versions page: upgrade requests (Versions.tsx, part_001, part_002)
    isCreatingUpgrade,       \* useState flag of the page
    isUpgradeModalOpen,
    isBulkUpgradeModalOpen,
    upgradeForm,             \* UpgradeSelectionModal's three selections
    selectedUpgrades,        \* BulkUpgradeModal's Set of upgrade keys
    upgradeInFlight,         \* pending apiClient.createUpgradePR calls
    pullRequests,            \* the upgrades a pull request was created for, in order
    \* ---- CoverageAnalysisModal (CoverageAnalysisModal.tsx:35-168)
    analysisSelected,        \* the modal's selectedRepositories
    isAnalyzing,
    analysisProgress,
    analysisPercent,         \* the modal's progress
    analysisRun,             \* the locals of the running startCoverageAnalysis
    analysisResults,         \* what onAnalysisResults was last called with
    \* ---- improve-coverage function (part_009)
    improveRequest,          \* the request body and the GITHUB_TOKEN setting
    improveRun,              \* the locals of the handler while it runs
    improveResults,          \* the handler's results array
    improveResponse,         \* the response sent (status 0 while running)
    \* ---- ErrorDialog (part_003)
    dialogProps,             \* the error and repositoryName props
    errorDetails,            \* getErrorDetails(error, repositoryName) of the last render
    \* ---- Vulnerabilities page: the metric cards (RecentActivity.tsx:306-401)
    securityMetrics,         \* calculateSecurityMetrics() of the last render
    \* ---- ImproveCoverageModal (ReportGenerationModal.tsx:429-653)
    modalRepositories,       \* useRepositories().repositories of the dialog
    modalSelected,           \* selectedRepositories
    isImproving,
    improvements,            \* repository id -> its CoverageImprovement
    modalProgress,           \* progress
    improveInFlight,         \* apiClient.improveCoverage calls not yet settled
    \* ---- ApiClient (part_004:132-206) and AuthProvider (AuthContext.tsx:26-95)
    accessToken,             \* apiClient.accessToken
    storedToken,             \* localStorage 'access_token'
    authUser,                \* the provider's user
    authLoading,             \* the provider's loading
    authChecked,             \* the mount effect has run
    authInFlight,            \* requests of the auth endpoints not yet settled
    \* ---- SQLiteAuth (AuthContext.tsx:224-391)
    users,                   \* the users map: email -> password
    sessions,                \* the sessions map: access token -> session
    sqliteToken,             \* localStorage 'sqlite_access_token'
    clock,                   \* Date.now(), in half days
    issued,                  \* number of access tokens created so far
    profileRows,             \* user ids of the rows of the profiles table
    authResult               \* what the last call returned

vulnVars == <<repositories, scannedVulnerabilities, isFixingVulnerability,
              errorDialog, fixInFlight, selectedRepositories, isScanning,
              scanProgress, progress, scanRun>>

versionsVars == <<scannedUpgrades, isScanUpdatesOpen, repositoryUpdates,
                  updatesScanning, updatesProgress, updatesRun>>

feedVars == <<user, mountUser, localVulnerabilities, localUpgrades, scanResults,
              activities, loading, error, fetchInFlight, now>>

upgradeVars == <<isCreatingUpgrade, isUpgradeModalOpen, isBulkUpgradeModalOpen,
                 upgradeForm, selectedUpgrades, upgradeInFlight, pullRequests>>

coverageVars == <<analysisSelected, isAnalyzing, analysisProgress, analysisPercent,
                  analysisRun, analysisResults>>

improveVars == <<improveRequest, improveRun, improveResults, improveResponse>>

dialogVars == <<dialogProps, errorDetails>>

\* What the pages modelled first leave alone
metricsVars == <<securityMetrics>>

modalVars == <<modalRepositories, modalSelected, isImproving, improvements,
               modalProgress, improveInFlight>>

clientVars == <<accessToken, storedToken, authUser, authLoading, authChecked,
                authInFlight>>

sqliteVars == <<users, sessions, sqliteToken, clock, issued, profileRows,
                authResult>>

otherVars == <<metricsVars, modalVars, clientVars, sqliteVars>>

\* What the parts modelled later leave alone
firstVars == <<page, vulnVars, versionsVars, feedVars, scannerLoadedOn, upgradeVars,
               coverageVars, improveVars, dialogVars>>

restVars == <<scannerLoadedOn, upgradeVars, coverageVars, improveVars, dialogVars,
              otherVars>>

vars == <<page, vulnVars, versionsVars, feedVars, restVars>>

NULL == "null"

----------------------------------------------------------------------------
(* Generic helpers *)

Range(s) == {s[i] : i \in 1..Len(s)}

SeqFilter(s, Keep(_)) ==
    LET F[i \in 0..Len(s)] ==
            IF i = 0 THEN <<>>
            ELSE IF Keep(s[i]) THEN Append(F[i - 1], s[i]) ELSE F[i - 1]
    IN F[Len(s)]

SeqMap(s, Op(_)) == [i \in 1..Len(s) |-> Op(s[i])]

\* Array.prototype.slice(0, n), and the array left whole for comparison
SliceAll(s, n) == s
Slice(s, n) == SubSeq(s, 1, IF Len(s) < n THEN Len(s) ELSE n)

\* All orderings of the elements of a duplicate-free sequence
Orderings(s) ==
    {p \in [1..Len(s) -> Range(s)] : \A i, j \in 1..Len(s) : i # j => p[i] # p[j]}

----------------------------------------------------------------------------
(* The security-scan function (supabase/functions/security-scan/index.ts) *)


\* mockVulnerabilities: language -> the ids of its known vulnerabilities
mockVulnerabilities(language) ==
    CASE language = "Java" -> <<"CVE-2024-1001", "CVE-2024-1002", "CVE-2024-1003">>
      [] language = "TypeScript" -> <<"CVE-2024-2001", "CVE-2024-2002">>
      [] language = "JavaScript" -> <<"CVE-2024-3001">>
      [] language = "Python" -> <<"CVE-2024-4001", "CVE-2024-4002">>
      [] OTHER -> <<>>

\* Object.values(mockVulnerabilities).flat()
allVulns ==
    mockVulnerabilities("Java") \o mockVulnerabilities("TypeScript")
        \o mockVulnerabilities("JavaScript") \o mockVulnerabilities("Python")

\* The indexes into allVulns that the "random vulnerability from another
\* language" draw is taken from; 0 stands for Math.random() <= 0.7 (no draw).
ExtraPicks == {0, 4, 6}

\* The guard of the extra push: !foundVulnerabilities.some(v => v.id === randomVuln.id),
\* and a push without the guard for comparison
ExtraAllowedBuggy(found, randomVuln) == TRUE
ExtraAllowed(found, randomVuln) == \A i \in 1..Len(found) : found[i] # randomVuln

\* foundVulnerabilities for one request: shuffled is the shuffled copy of the
\* language's list, numVulns the number kept, extra the index of the draw.
FoundVulnerabilities(shuffled, numVulns, extra) ==
    LET base == SubSeq(shuffled, 1, numVulns)
    IN IF extra # 0 /\ ExtraAllowed(base, allVulns[extra])
          THEN Append(base, allVulns[extra])
          ELSE base

\* Every vulnerabilities array a successful response for `language` can carry
ScanResponses(language) ==
    LET languageVulns == mockVulnerabilities(language)
    IN {FoundVulnerabilities(shuffled, numVulns, extra) :
            shuffled \in Orderings(languageVulns),
            numVulns \in 0..Len(languageVulns),
            extra \in ExtraPicks}

----------------------------------------------------------------------------
(* Repositories (useRepositories) *)

\* The repositories the signed-in user has connected, as the API lists them
AllRepositories ==
    <<[id |-> "r1", language |-> "JavaScript"],
      [id |-> "r2", language |-> NULL]>>

RepoIds == {AllRepositories[i].id : i \in 1..Len(AllRepositories)}

VulnIds == Range(allVulns)

\* repositories.find(r => r.id === repositoryId) finds one
HasRepo(repos, repositoryId) ==
    \E i \in 1..Len(repos) : repos[i].id = repositoryId

\* repositories.find(r => r.id === repositoryId), when it finds one
FindRepo(repos, repositoryId) ==
    repos[CHOOSE i \in 1..Len(repos) :
             /\ repos[i].id = repositoryId
             /\ \A j \in 1..(i - 1) : repos[j].id # repositoryId]

\* repo?.name || 'Unknown' of a progress entry; a repository's name is
\* modelled by its id
RepositoryName(repos, repositoryId) ==
    IF HasRepo(repos, repositoryId) THEN FindRepo(repos, repositoryId).id
    ELSE "Unknown"

----------------------------------------------------------------------------
(* SecurityScanModal *)

\* handleRepositoryToggle's state update
Toggle(prev, repositoryId) ==
    IF repositoryId \in Range(prev)
       THEN SeqFilter(prev, LAMBDA id : id # repositoryId)
       ELSE Append(prev, repositoryId)

\* The checkboxes exist only while the selection view is shown (!isScanning)
\* and only for the listed repositories.
HandleRepositoryToggle(repositoryId) ==
    /\ page = "vulnerabilities"
    /\ ~isScanning
    /\ HasRepo(repositories, repositoryId)
    /\ selectedRepositories' = Toggle(selectedRepositories, repositoryId)
    /\ UNCHANGED <<page, restVars, versionsVars, feedVars, repositories, scannedVulnerabilities,
                   isFixingVulnerability, errorDialog, fixInFlight, isScanning,
                   scanProgress, progress, scanRun>>

SelectAllRepositories ==
    /\ page = "vulnerabilities"
    /\ ~isScanning
    /\ Len(repositories) # 0
    /\ selectedRepositories' = SeqMap(repositories, LAMBDA repo : repo.id)
    /\ selectedRepositories' # selectedRepositories
    /\ UNCHANGED <<page, restVars, versionsVars, feedVars, repositories, scannedVulnerabilities,
                   isFixingVulnerability, errorDialog, fixInFlight, isScanning,
                   scanProgress, progress, scanRun>>

DeselectAllRepositories ==
    /\ page = "vulnerabilities"
    /\ ~isScanning
    /\ selectedRepositories # <<>>
    /\ selectedRepositories' = <<>>
    /\ UNCHANGED <<page, restVars, versionsVars, feedVars, repositories, scannedVulnerabilities,
                   isFixingVulnerability, errorDialog, fixInFlight, isScanning,
                   scanProgress, progress, scanRun>>

\* No scan is running
NoRun ==
    [selected |-> <<>>, repos |-> <<>>, idx |-> 0, allResults |-> <<>>,
     completedScans |-> 0, outcomes |-> <<>>]

\* The next index >= from of the for-loop whose repository is found
\* (`if (!repo) continue`); Len(selected) + 1 when the loop is over.
NextFound(selected, repos, from) ==
    IF \E i \in from..Len(selected) : HasRepo(repos, selected[i])
       THEN CHOOSE i \in from..Len(selected) :
               /\ HasRepo(repos, selected[i])
               /\ \A j \in from..(i - 1) : ~HasRepo(repos, selected[j])
       ELSE Len(selected) + 1

\* setScanProgress(prev => prev.map(item => item.repositoryId === id ? {...item, ...} : item))
MarkScanning(prev, repositoryId) ==
    [i \in 1..Len(prev) |->
        IF prev[i].repositoryId = repositoryId
           THEN [prev[i] EXCEPT !.isScanning = TRUE]
           ELSE prev[i]]

\* The update that leaves isScanning as it is
MarkCompleteStillScanning(prev, repositoryId, found) ==
    [i \in 1..Len(prev) |->
        IF prev[i].repositoryId = repositoryId
           THEN [prev[i] EXCEPT !.isComplete = TRUE, !.vulnerabilitiesFound = found]
           ELSE prev[i]]

MarkComplete(prev, repositoryId, found) ==
    [i \in 1..Len(prev) |->
        IF prev[i].repositoryId = repositoryId
           THEN [prev[i] EXCEPT !.isScanning = FALSE, !.isComplete = TRUE,
                                !.vulnerabilitiesFound = found]
           ELSE prev[i]]

\* result.data.vulnerabilities.map(vuln => ({...vuln, repository, repositoryId, platform})).
\* Every entry of mockVulnerabilities carries discoveredDate: new Date() of the
\* moment the function's module was evaluated (security-scan/index.ts:40).
RepoVulnerabilities(repo, vulnerabilities) ==
    [i \in 1..Len(vulnerabilities) |->
        [id |-> vulnerabilities[i], repositoryId |-> repo.id, status |-> "open",
         discoveredDate |-> scannerLoadedOn]]

\* handleScanResults (RecentActivity.tsx:209-225)
HandleScanResults(prev, results) == results

\* The three ways one runSecurityScan call is seen by the client
ScanOutcomes(repo) ==
    {[kind |-> "ok", vulnerabilities |-> vs] : vs \in ScanResponses(repo.language)}
        \cup {[kind |-> "unsuccessful", vulnerabilities |-> <<>>],
              [kind |-> "throws", vulnerabilities |-> <<>>]}

AllScanOutcomes ==
    UNION {ScanOutcomes(AllRepositories[i]) : i \in 1..Len(AllRepositories)}

\* startSecurityScan up to its first await (or to its end when no selected
\* repository is found)
StartSecurityScan ==
    /\ page = "vulnerabilities"
    /\ ~isScanning
    /\ Len(selectedRepositories) # 0
    /\ LET selected == selectedRepositories
           initialProgress ==
               [i \in 1..Len(selected) |->
                   [repositoryId |-> selected[i],
                    repositoryName |-> RepositoryName(repositories, selected[i]),
                    isScanning |-> FALSE, isComplete |-> FALSE,
                    vulnerabilitiesFound |-> 0]]
           first == NextFound(selected, repositories, 1)
       IN /\ progress' = <<0, 1>>
          /\ IF first > Len(selected)
                THEN /\ isScanning' = FALSE
                     /\ scanProgress' = initialProgress
                     /\ scanRun' = NoRun
                     /\ scannedVulnerabilities' =
                            HandleScanResults(scannedVulnerabilities, <<>>)
                ELSE /\ isScanning' = TRUE
                     /\ scanProgress' = MarkScanning(initialProgress, selected[first])
                     /\ scanRun' = [selected |-> selected, repos |-> repositories,
                                    idx |-> first, allResults |-> <<>>,
                                    completedScans |-> 0, outcomes |-> <<>>]
                     /\ UNCHANGED scannedVulnerabilities
    /\ UNCHANGED <<page, restVars, versionsVars, feedVars, repositories, isFixingVulnerability, errorDialog,
                   fixInFlight, selectedRepositories>>

\* startSecurityScan from the settling of one runSecurityScan call to the next
\* await, or to the end of the function
ScanResponse(outcome) ==
    /\ page = "vulnerabilities"
    /\ scanRun.idx # 0
    /\ LET selected == scanRun.selected
           repositoryId == selected[scanRun.idx]
           repo == FindRepo(scanRun.repos, repositoryId)
           repoVulnerabilities == RepoVulnerabilities(repo, outcome.vulnerabilities)
           allResults == IF outcome.kind = "ok"
                            THEN scanRun.allResults \o repoVulnerabilities
                            ELSE scanRun.allResults
           found == IF outcome.kind = "ok" THEN Len(repoVulnerabilities) ELSE 0
           completedScans == scanRun.completedScans + 1
           next == NextFound(selected, scanRun.repos, scanRun.idx + 1)
           completed == MarkComplete(scanProgress, repositoryId, found)
       IN /\ outcome \in ScanOutcomes(repo)
          /\ progress' = <<completedScans, Len(selected)>>
          /\ IF next > Len(selected)
                THEN /\ isScanning' = FALSE
                     /\ scanProgress' = completed
                     /\ scanRun' = NoRun
                     /\ scannedVulnerabilities' =
                            HandleScanResults(scannedVulnerabilities, allResults)
                ELSE /\ isScanning' = TRUE
                     /\ scanProgress' = MarkScanning(completed, selected[next])
                     /\ scanRun' = [scanRun EXCEPT
                                       !.idx = next,
                                       !.allResults = allResults,
                                       !.completedScans = completedScans,
                                       !.outcomes = Append(@, outcome.kind)]
                     /\ UNCHANGED scannedVulnerabilities
    /\ UNCHANGED <<page, restVars, versionsVars, feedVars, repositories, isFixingVulnerability, errorDialog,
                   fixInFlight, selectedRepositories>>

----------------------------------------------------------------------------
(* Vulnerabilities page: the "Fix Now" workflow (RecentActivity.tsx:227-291) *)

\* Fix requests that may be pending at once
MaxInFlight == 2

\* Error texts of the fix-vulnerability endpoint
ErrorMessages == {"Failed to create branch: Forbidden"}

FindingKeys == RepoIds \X VulnIds

KeyOf(v) == <<v.repositoryId, v.id>>

\* prev.map(v => v.id === vuln.id ? { ...v, status: 'in-progress' } : v)
MarkInProgress(prev, vuln) ==
    [i \in 1..Len(prev) |->
        IF prev[i].id = vuln.id
           THEN [prev[i] EXCEPT !.status = "in-progress"]
           ELSE prev[i]]

\* The button is rendered for a listed finding whose status is 'open' and is
\* disabled while isFixingVulnerability === vuln.id
FixButtonEnabled(vuln) ==
    /\ vuln \in Range(scannedVulnerabilities)
    /\ vuln.status = "open"
    /\ isFixingVulnerability # vuln.id

\* handleFixVulnerability up to `await apiClient.fixVulnerability(...)`
HandleFixVulnerability(vuln) ==
    /\ page = "vulnerabilities"
    /\ FixButtonEnabled(vuln)
    /\ BagCardinality(fixInFlight) < MaxInFlight
    /\ isFixingVulnerability' = vuln.id
    /\ fixInFlight' = fixInFlight (+) SetToBag({KeyOf(vuln)})
    /\ UNCHANGED <<page, restVars, versionsVars, feedVars, repositories, scannedVulnerabilities, errorDialog,
                   selectedRepositories, isScanning, scanProgress, progress,
                   scanRun>>

\* How one fixVulnerability call settles: data.success, success false with or
\* without result.error, or request() throwing
FixOutcomes ==
    {[kind |-> "success", error |-> NULL], [kind |-> "unsuccessful", error |-> NULL]}
        \cup {[kind |-> k, error |-> e] :
                 k \in {"unsuccessful", "throws"}, e \in ErrorMessages}

\* error.message in the catch block, and a dialog that always shows the
\* handler's own text for comparison
FixErrorMessageGeneric(outcome) == "Failed to fix vulnerability"
FixErrorMessage(outcome) ==
    IF outcome.kind = "unsuccessful" /\ outcome.error = NULL
       THEN "Failed to fix vulnerability"
       ELSE outcome.error

\* The handler without its finally block: the marker is left as it is
FixResponseWithoutFinally(key, outcome) ==
    /\ page = "vulnerabilities"
    /\ BagIn(key, fixInFlight)
    /\ fixInFlight' = fixInFlight (-) SetToBag({key})
    /\ LET vuln == [repositoryId |-> key[1], id |-> key[2]]
       IN IF outcome.kind = "success"
             THEN /\ scannedVulnerabilities' =
                         MarkInProgress(scannedVulnerabilities, vuln)
                  /\ UNCHANGED errorDialog
             ELSE /\ errorDialog' = [open |-> TRUE, error |-> FixErrorMessage(outcome)]
                  /\ UNCHANGED scannedVulnerabilities
    /\ UNCHANGED <<page, restVars, versionsVars, feedVars, repositories, selectedRepositories, isScanning,
                   scanProgress, progress, scanRun, isFixingVulnerability>>

\* handleFixVulnerability from the settling of the call to its end
FixResponse(key, outcome) ==
    /\ page = "vulnerabilities"
    /\ BagIn(key, fixInFlight)
    /\ fixInFlight' = fixInFlight (-) SetToBag({key})
    /\ LET vuln == [repositoryId |-> key[1], id |-> key[2]]
       IN IF outcome.kind = "success"
             THEN /\ scannedVulnerabilities' =
                         MarkInProgress(scannedVulnerabilities, vuln)
                  /\ UNCHANGED errorDialog
             ELSE /\ errorDialog' = [open |-> TRUE, error |-> FixErrorMessage(outcome)]
                  /\ UNCHANGED scannedVulnerabilities
    /\ isFixingVulnerability' = NULL
    /\ UNCHANGED <<page, restVars, versionsVars, feedVars, repositories, selectedRepositories, isScanning,
                   scanProgress, progress, scanRun>>

\* ErrorDialog onOpenChange(false)
CloseErrorDialog ==
    /\ page = "vulnerabilities"
    /\ errorDialog.open
    /\ errorDialog' = [errorDialog EXCEPT !.open = FALSE]
    /\ UNCHANGED <<page, restVars, versionsVars, feedVars, repositories, scannedVulnerabilities,
                   isFixingVulnerability, fixInFlight, selectedRepositories,
                   isScanning, scanProgress, progress, scanRun>>

----------------------------------------------------------------------------
(* Vulnerabilities page: the metric cards (RecentActivity.tsx:306-401) *)

\* severity of the scanner's findings (security-scan/index.ts:18)
Severities == {"critical", "high", "medium", "low"}

\* Lists are considered up to this length
MaxListed == 4

\* The lists of findings the page may hold, by the severities of the findings
SeverityLists ==
    UNION {{[i \in 1..n |->
                [id |-> "CVE-" \o ToString(i), repositoryId |-> "r1",
                 status |-> "open", discoveredDate |-> 1, severity |-> f[i]]] :
            f \in [1..n -> Severities]} : n \in 0..MaxListed}

\* The cards when nothing was scanned: the score card shows "N/A"
NoMetrics ==
    [scored |-> FALSE, critical |-> 0, high |-> 0, mediumLow |-> 0, score |-> 0,
     grade |-> "N/A"]

\* scannedVulnerabilities.filter(v => v.severity === severity).length
CountSeverity(list, severity) ==
    Len(SeqFilter(list, LAMBDA v : v.severity = severity))

\* A score that is not clamped
UnclampedScore(score) == score

\* Math.max(0, score)
ClampScore(score) == IF score < 0 THEN 0 ELSE score

getScoreGrade(score) ==
    IF score >= 90 THEN "A+"
    ELSE IF score >= 80 THEN "A"
    ELSE IF score >= 70 THEN "B+"
    ELSE IF score >= 60 THEN "B"
    ELSE IF score >= 50 THEN "C+"
    ELSE IF score >= 40 THEN "C"
    ELSE IF score >= 30 THEN "D"
    ELSE "F"

calculateSecurityMetrics(list) ==
    IF Len(list) = 0 THEN NoMetrics
    ELSE LET critical == CountSeverity(list, "critical")
             high == CountSeverity(list, "high")
             medium == CountSeverity(list, "medium")
             low == CountSeverity(list, "low")
             score == ClampScore(100 - critical * 30 - high * 15 - medium * 5 - low * 1)
         IN [scored |-> TRUE, critical |-> critical, high |-> high,
             mediumLow |-> medium + low, score |-> score,
             grade |-> getScoreGrade(score)]

\* A render of the page: const securityMetrics = calculateSecurityMetrics()
RenderMetrics ==
    /\ page = "vulnerabilities"
    /\ securityMetrics # calculateSecurityMetrics(scannedVulnerabilities)
    /\ securityMetrics' = calculateSecurityMetrics(scannedVulnerabilities)
    /\ UNCHANGED <<firstVars, modalVars, clientVars, sqliteVars>>

----------------------------------------------------------------------------
(* Versions page: ScanUpdatesModal (part_001) and handleScanResults *)

\* technologyVersions, for the relevant technologies
technologyVersions(tech) ==
    CASE tech = "Java" ->
            <<"21.0.2", "21.0.1", "21.0.0", "17.0.9", "17.0.8", "17.0.7",
              "17.0.6", "17.0.5", "11.0.21", "11.0.20", "11.0.19", "8u392",
              "8u382", "8u372">>
      [] tech = "Angular" -> <<"18", "17", "16", "15">>
      [] tech = "Python" -> <<"3.12", "3.11", "3.10", "3.9">>
      [] tech = "TypeScript" -> <<"5.3", "5.2", "5.1", "5.0", "4.9">>
      [] tech = "Node.js" -> <<"20", "18", "16", "14">>
      [] tech = "React" -> <<"18", "17", "16">>
      [] OTHER -> <<>>

relevantTechnologies ==
    <<"Java", "Angular", "Python", "TypeScript", "Node.js", "React">>

\* What detectCurrentVersion reads from each repository's files; NULL when the
\* technology is not found there.
DetectedVersion(repositoryId, tech) ==
    CASE repositoryId = "r1" /\ tech = "Java" -> "17.0.5"
      [] repositoryId = "r1" /\ tech = "Angular" -> "18"
      [] repositoryId = "r1" /\ tech = "TypeScript" -> "5.0.0"
      [] repositoryId = "r1" /\ tech = "Node.js" -> "18"
      [] repositoryId = "r2" /\ tech = "Python" -> "3.9"
      [] repositoryId = "r2" /\ tech = "React" -> "17"
      [] OTHER -> NULL

\* Versions.tsx:39, the `repositories` prop of the modal
allRepositories == AllRepositories

\* initializeScan's initialUpdates
InitialUpdates(repos) ==
    [r \in 1..Len(repos) |->
        [repository |-> repos[r].id,
         technologies |->
            [t \in 1..Len(relevantTechnologies) |->
                [name |-> relevantTechnologies[t],
                 currentVersion |-> NULL,
                 latestVersion |-> technologyVersions(relevantTechnologies[t])[1],
                 needsUpdate |-> FALSE]],
         isScanning |-> FALSE,
         scanned |-> FALSE]]

\* currentVersion !== latestVersion && availableVersions.includes(currentVersion)
NeedsUpdate(tech, currentVersion) ==
    /\ currentVersion # technologyVersions(tech)[1]
    /\ currentVersion \in Range(technologyVersions(tech))

\* setRepositoryUpdates(prev => ...) storing one detected version
StoreDetected(prev, repoIndex, technology, currentVersion) ==
    [r \in 1..Len(prev) |->
        IF r = repoIndex
           THEN [prev[r] EXCEPT !.technologies =
                    [t \in 1..Len(@) |->
                        IF @[t].name = technology
                           THEN [@[t] EXCEPT
                                    !.currentVersion = currentVersion,
                                    !.needsUpdate = NeedsUpdate(technology, currentVersion)]
                           ELSE @[t]]]
           ELSE prev[r]]

SetRepoFlags(prev, repoIndex, scanning, done) ==
    [r \in 1..Len(prev) |->
        IF r = repoIndex
           THEN [prev[r] EXCEPT !.isScanning = scanning,
                                !.scanned = IF done THEN TRUE ELSE @]
           ELSE prev[r]]

\* The upgradeResults loop (part_001:165-180) over a repositoryUpdates value
UpgradeResultsOf(repoUpdate) ==
    LET needing == SeqFilter(repoUpdate.technologies,
                             LAMBDA tech : tech.needsUpdate /\ tech.currentVersion # NULL)
    IN [i \in 1..Len(needing) |->
           [repositoryId |-> repoUpdate.repository,
            technology |-> needing[i].name,
            currentVersion |-> needing[i].currentVersion,
            targetVersion |-> needing[i].latestVersion,
            status |-> "pending"]]

UpgradeResults(updates) ==
    LET F[r \in 0..Len(updates)] ==
            IF r = 0 THEN <<>> ELSE F[r - 1] \o UpgradeResultsOf(updates[r])
    IN F[Len(updates)]

\* Versions.handleScanResults (Versions.tsx:213-224)
HandleUpgradeScanResults(prev, results) == results

\* useEffect(() => { if (open && repositories.length > 0) initializeScan() },
\* [open, repositories]): the parent builds a new allRepositories array on
\* every render, so the effect runs after every render of the Versions page.
EffectUpdates(open, updates) ==
    IF open /\ Len(allRepositories) > 0 THEN InitialUpdates(allRepositories) ELSE updates

EffectProgress(open, p) ==
    IF open /\ Len(allRepositories) > 0 THEN <<0, 1>> ELSE p

NoUpdatesRun ==
    [captured |-> <<>>, repoIndex |-> 0, techIndex |-> 0, completedScans |-> 0]

\* "Scan for Updates": setIsScanUpdatesOpen(true)
OpenScanUpdates ==
    /\ page = "versions"
    /\ ~isScanUpdatesOpen
    /\ isScanUpdatesOpen' = TRUE
    /\ repositoryUpdates' = EffectUpdates(TRUE, repositoryUpdates)
    /\ updatesProgress' = EffectProgress(TRUE, updatesProgress)
    /\ UNCHANGED <<page, restVars, vulnVars, feedVars, scannedUpgrades, updatesScanning,
                   updatesRun>>

\* The dialog's onOpenChange(false)
CloseScanUpdates ==
    /\ page = "versions"
    /\ isScanUpdatesOpen
    /\ isScanUpdatesOpen' = FALSE
    /\ UNCHANGED <<page, restVars, vulnVars, feedVars, scannedUpgrades, repositoryUpdates,
                   updatesScanning, updatesProgress, updatesRun>>

\* Any other render of the Versions page (a toast, a repositories hook settling)
VersionsRender ==
    /\ page = "versions"
    /\ isScanUpdatesOpen
    /\ repositoryUpdates' = EffectUpdates(TRUE, repositoryUpdates)
    /\ updatesProgress' = EffectProgress(TRUE, updatesProgress)
    /\ repositoryUpdates' # repositoryUpdates
    /\ UNCHANGED <<page, restVars, vulnVars, feedVars, scannedUpgrades, isScanUpdatesOpen,
                   updatesScanning, updatesRun>>

\* scanAllRepositories up to its first await.  The closure keeps the
\* repositoryUpdates of the render the button was clicked in.
ScanAllRepositories ==
    /\ page = "versions"
    /\ isScanUpdatesOpen
    /\ ~updatesScanning
    /\ Len(allRepositories) # 0
    /\ updatesScanning' = TRUE
    /\ repositoryUpdates' = SetRepoFlags(repositoryUpdates, 1, TRUE, FALSE)
    /\ updatesRun' = [captured |-> repositoryUpdates, repoIndex |-> 1,
                      techIndex |-> 1, completedScans |-> 0]
    /\ UNCHANGED <<page, restVars, vulnVars, feedVars, scannedUpgrades, isScanUpdatesOpen,
                   updatesProgress>>

\* One settled detect-current-version call: the version read (NULL when the
\* technology is absent), or a failed call (error, success false, or a throw)
DetectOutcomes(repositoryId, tech) ==
    {[kind |-> "detected", currentVersion |-> DetectedVersion(repositoryId, tech)],
     [kind |-> "failed", currentVersion |-> NULL]}

AllDetectOutcomes ==
    UNION {DetectOutcomes(r, relevantTechnologies[t]) :
              r \in RepoIds, t \in 1..Len(relevantTechnologies)}

\* scanAllRepositories from one settled call to the next await, or to its end
DetectResponse(outcome) ==
    /\ page = "versions"
    /\ updatesRun.repoIndex # 0
    /\ LET repoIndex == updatesRun.repoIndex
           repo == allRepositories[repoIndex]
           technology == relevantTechnologies[updatesRun.techIndex]
           totalScans == Len(allRepositories) * Len(relevantTechnologies)
           completedScans == updatesRun.completedScans + 1
           stored == IF outcome.kind = "detected" /\ outcome.currentVersion # NULL
                        THEN StoreDetected(repositoryUpdates, repoIndex, technology,
                                           outcome.currentVersion)
                        ELSE repositoryUpdates
           lastTech == updatesRun.techIndex = Len(relevantTechnologies)
           lastRepo == repoIndex = Len(allRepositories)
           scanned == SetRepoFlags(stored, repoIndex, FALSE, TRUE)
       IN /\ outcome \in DetectOutcomes(repo.id, technology)
          /\ IF ~lastTech
                THEN /\ repositoryUpdates' = stored
                     /\ updatesProgress' = <<completedScans, totalScans>>
                     /\ updatesRun' = [updatesRun EXCEPT !.techIndex = @ + 1,
                                           !.completedScans = completedScans]
                     /\ UNCHANGED <<updatesScanning, scannedUpgrades>>
                ELSE IF ~lastRepo
                THEN /\ repositoryUpdates' = SetRepoFlags(scanned, repoIndex + 1, TRUE, FALSE)
                     /\ updatesProgress' = <<completedScans, totalScans>>
                     /\ updatesRun' = [updatesRun EXCEPT !.repoIndex = @ + 1,
                                           !.techIndex = 1,
                                           !.completedScans = completedScans]
                     /\ UNCHANGED <<updatesScanning, scannedUpgrades>>
                ELSE /\ updatesScanning' = FALSE
                     /\ scannedUpgrades' =
                            HandleUpgradeScanResults(scannedUpgrades,
                                                     UpgradeResults(updatesRun.captured))
                     /\ repositoryUpdates' = EffectUpdates(isScanUpdatesOpen, scanned)
                     /\ updatesProgress' =
                            EffectProgress(isScanUpdatesOpen, <<completedScans, totalScans>>)
                     /\ updatesRun' = NoUpdatesRun
    /\ UNCHANGED <<page, restVars, vulnVars, feedVars, isScanUpdatesOpen>>

----------------------------------------------------------------------------
(* Dashboard: the recent-activity feed (useRecentActivity.ts:17-310) *)

\* .slice(0, 20) and .limit(20)
FeedLimit == 20
QueryLimit == 20

\* formatTimeAgo's units
MinutesPerHour == 60
HoursPerDay == 24
DaysPerWeek == 7

\* Calls of fetchRecentActivity that may await the query at once
MaxFetches == 1

\* Rows the scan_results table may hold
MaxScanResults == 20

\* The instants, in minutes, the clock passes through; local findings are
\* dated instant 0, two weeks before the first
Instants == <<20200, 20300, 23000>>

Plural(n, unit) ==
    ToString(n) \o " " \o unit \o (IF n > 1 THEN "s" ELSE "") \o " ago"

\* formatTimeAgo(dateString) evaluated at the instant nowT
formatTimeAgo(date, nowT) ==
    LET diffInMinutes == nowT - date
        diffInHours == diffInMinutes \div MinutesPerHour
        diffInDays == diffInHours \div HoursPerDay
        diffInWeeks == diffInDays \div DaysPerWeek
    IN IF diffInMinutes < 1 THEN "Just now"
       ELSE IF diffInMinutes < MinutesPerHour THEN Plural(diffInMinutes, "minute")
       ELSE IF diffInHours < HoursPerDay THEN Plural(diffInHours, "hour")
       ELSE IF diffInDays < DaysPerWeek THEN Plural(diffInDays, "day")
       ELSE Plural(diffInWeeks, "week")

\* scanResult.created_at || scanResult.discoveredDate || new Date()
CreatedOf(scanResult, nowT) ==
    IF "created_at" \in DOMAIN scanResult THEN scanResult.created_at
    ELSE IF "discoveredDate" \in DOMAIN scanResult THEN scanResult.discoveredDate
    ELSE nowT

\* generateActivityFromScanResult.  createdAt is not a field of ActivityItem:
\* it records the instant the timestamp text was computed from.
generateActivityFromScanResult(scanResult, source, nowT) ==
    [id |-> scanResult.id,
     timestamp |-> formatTimeAgo(CreatedOf(scanResult, nowT), nowT),
     source |-> source,
     createdAt |-> CreatedOf(scanResult, nowT)]

\* loadPersistedData over the two localStorage entries
loadPersistedData(vulnerabilities, upgrades, nowT) ==
    LET vulnerabilityActivities ==
            [i \in 1..Len(vulnerabilities) |->
                generateActivityFromScanResult(vulnerabilities[i], "local", nowT)]
        upgradeActivities ==
            [i \in 1..Len(upgrades) |->
                generateActivityFromScanResult(
                    [id |-> "upgrade-" \o upgrades[i].repositoryId \o "-"
                                \o upgrades[i].technology,
                     created_at |-> nowT],
                    "local", nowT)]
    IN vulnerabilityActivities \o upgradeActivities

\* The id of the n-th row inserted into scan_results
ScanResultId(n) == "scan-" \o ToString(n)

\* What localStorage may hold when the dashboard is opened or after another
\* tab wrote it: nothing; or more findings than the feed shows, among them one
\* CVE found in two repositories and a local copy of a stored scan result,
\* and one upgrade.
LocalFindingId(n) ==
    IF n <= 2 THEN "CVE-2024-3001"
    ELSE IF n = 3 THEN ScanResultId(1)
    ELSE "CVE-2024-" \o ToString(5000 + n)

LocalProfiles ==
    {[vulnerabilities |-> <<>>, upgrades |-> <<>>],
     [vulnerabilities |->
          [n \in 1..(FeedLimit + 1) |->
              [id |-> LocalFindingId(n),
               repositoryId |-> IF n = 2 THEN "r2" ELSE "r1",
               discoveredDate |-> 0]],
      upgrades |-> <<[repositoryId |-> "r1", technology |-> "Java"]>>]}

Users == {"u1", "u2"}

\* The scan_results table when the dashboard is opened: one row a minute for
\* the last nineteen minutes, the fifth for a repository of another user
ScanResultProfiles ==
    {[n \in 1..(QueryLimit - 1) |->
         [id |-> ScanResultId(n), created_at |-> Instants[1] - QueryLimit + n,
          user_id |-> IF n = 5 THEN "u2" ELSE "u1"]]}

\* .order('created_at', { ascending: false })
OrderByCreatedAtDesc(rows) ==
    SortSeq(rows, LAMBDA a, b : a.created_at > b.created_at)

\* The query: .eq('repositories.user_id', user.id) ... .limit(20)
QueryScanResults(rows, userId) ==
    LET mine == SeqFilter(rows, LAMBDA row : row.user_id = userId)
    IN Slice(OrderByCreatedAtDesc(mine), QueryLimit)

\* The callback that keeps the entry met first
UniqueStepFirstKept(acc, activity) ==
    IF \A j \in 1..Len(acc) : acc[j].id # activity.id
       THEN Append(acc, activity)
       ELSE acc

\* The callback of the reduce: the activity is added when its id is new, and
\* takes the place of the entry with its id when that one is local and the
\* activity is from the database
UniqueStep(acc, activity) ==
    IF \A j \in 1..Len(acc) : acc[j].id # activity.id
       THEN Append(acc, activity)
       ELSE LET index == CHOOSE j \in 1..Len(acc) : acc[j].id = activity.id
            IN IF activity.source = "database" /\ acc[index].source = "local"
                  THEN [acc EXCEPT ![index] = activity]
                  ELSE acc

RECURSIVE UniqueFrom(_, _, _)
\* allActivities.reduce(callback, acc) from the i-th activity on; the value of
\* the callback holds the activity or an entry with its id and is never empty
UniqueFrom(acc, allActivities, i) ==
    IF i > Len(allActivities) THEN acc
    ELSE LET next == UniqueStep(acc, allActivities[i])
         IN IF Len(next) > 0 THEN UniqueFrom(next, allActivities, i + 1) ELSE next

\* The reduce that removes duplicates, preferring the database version
UniqueActivities(allActivities) == UniqueFrom(<<>>, allActivities, 1)

\* a.timestamp.includes('ago'): every text of formatTimeAgo but 'Just now'
IncludesAgo(timestamp) == timestamp # "Just now"

\* The sort's comparator is timeB - timeA with each time read as Date.now()
\* when the text includes 'ago' and as NaN otherwise: 0 (or NaN, read as 0),
\* unless the clock ticks between the two reads, when it is positive.  The
\* array is left as it is (swapAt = 0), or, on an engine that moves b before
\* a on a positive result, the pair compared during the tick is exchanged;
\* the tick is taken to fall in the comparison of the first two entries.
SwapPositions(unique) ==
    {0} \cup {i \in 1..1 :
                 /\ i < Len(unique)
                 /\ IncludesAgo(unique[i].timestamp)
                 /\ IncludesAgo(unique[i + 1].timestamp)}

SortedActivities(unique, swapAt) ==
    IF swapAt = 0 THEN unique
    ELSE [unique EXCEPT ![swapAt] = unique[swapAt + 1], ![swapAt + 1] = unique[swapAt]]

\* fetchRecentActivity, as closed over the user u, up to its first await (to
\* its end when u is null), reading localStorage entries v and g
StartFetch(u, v, g) ==
    IF u = NULL
       THEN /\ activities' = Slice(loadPersistedData(v, g, now), FeedLimit)
            /\ loading' = FALSE
            /\ UNCHANGED <<error, fetchInFlight>>
       ELSE /\ Len(fetchInFlight) < MaxFetches
            /\ loading' = TRUE
            /\ error' = NULL
            /\ fetchInFlight' =
                   Append(fetchInFlight,
                          [persisted |-> loadPersistedData(v, g, now), user |-> u])
            /\ UNCHANGED activities

\* refetch(): fetchRecentActivity of the current render
Refetch ==
    /\ page = "dashboard"
    /\ StartFetch(user, localVulnerabilities, localUpgrades)
    /\ UNCHANGED <<page, restVars, vulnVars, versionsVars, user, mountUser,
                   localVulnerabilities, localUpgrades, scanResults, now>>

\* useEffect(() => { fetchRecentActivity() }, [user]) after a sign-in
SignIn ==
    /\ page = "dashboard"
    /\ user = NULL
    /\ user' = "u1"
    /\ StartFetch("u1", localVulnerabilities, localUpgrades)
    /\ UNCHANGED <<page, restVars, vulnVars, versionsVars, mountUser, localVulnerabilities,
                   localUpgrades, scanResults, now>>

\* The same effect after a sign-out
SignOut ==
    /\ page = "dashboard"
    /\ user # NULL
    /\ user' = NULL
    /\ StartFetch(NULL, localVulnerabilities, localUpgrades)
    /\ UNCHANGED <<page, restVars, vulnVars, versionsVars, mountUser, localVulnerabilities,
                   localUpgrades, scanResults, now>>

\* Another tab rewrites 'scannedVulnerabilities' / 'scannedUpgrades':
\* handleStorageChange runs the fetchRecentActivity of the mounting render
StorageEvent(profile) ==
    /\ page = "dashboard"
    /\ <<profile.vulnerabilities, profile.upgrades>> #
           <<localVulnerabilities, localUpgrades>>
    /\ localVulnerabilities' = profile.vulnerabilities
    /\ localUpgrades' = profile.upgrades
    /\ StartFetch(mountUser, profile.vulnerabilities, profile.upgrades)
    /\ UNCHANGED <<page, restVars, vulnVars, versionsVars, user, mountUser, scanResults, now>>

\* The page is loaded again: the state starts from the saved
\* 'recentActivities', which the save effect keeps equal to activities
Remount ==
    /\ page = "dashboard"
    /\ mountUser' = user
    /\ IF user = NULL
          THEN /\ activities' = Slice(loadPersistedData(localVulnerabilities,
                                                        localUpgrades, now), FeedLimit)
               /\ loading' = FALSE
               /\ error' = NULL
               /\ fetchInFlight' = <<>>
          ELSE /\ activities' = activities
               /\ loading' = TRUE
               /\ error' = NULL
               /\ fetchInFlight' =
                      <<[persisted |-> loadPersistedData(localVulnerabilities,
                                                         localUpgrades, now),
                         user |-> user]>>
    /\ <<mountUser', activities', loading', error', fetchInFlight'>> #
           <<mountUser, activities, loading, error, fetchInFlight>>
    /\ UNCHANGED <<page, restVars, vulnVars, versionsVars, user, localVulnerabilities,
                   localUpgrades, scanResults, now>>

\* The sample entry shown when nothing is persisted
SampleActivity ==
    [id |-> "sample-1", timestamp |-> "Just now", source |-> "local", createdAt |-> now]

\* fetchRecentActivity from the settling of the query to its end
FetchResponse(i, outcome, swapAt) ==
    /\ page = "dashboard"
    /\ i \in 1..Len(fetchInFlight)
    /\ LET call == fetchInFlight[i]
           databaseActivities ==
               SeqMap(QueryScanResults(scanResults, call.user),
                      LAMBDA scanResult :
                          generateActivityFromScanResult(scanResult, "database", now))
           uniqueActivities == UniqueActivities(call.persisted \o databaseActivities)
           persistedActivities ==
               loadPersistedData(localVulnerabilities, localUpgrades, now)
       IN IF outcome = "ok"
             THEN /\ swapAt \in SwapPositions(uniqueActivities)
                  /\ activities' =
                         Slice(SortedActivities(uniqueActivities, swapAt), FeedLimit)
                  /\ UNCHANGED error
             ELSE /\ swapAt = 0
                  /\ error' = "Failed to fetch recent activity"
                  /\ activities' =
                         IF Len(persistedActivities) > 0
                            THEN Slice(persistedActivities, FeedLimit)
                            ELSE <<SampleActivity>>
    /\ loading' = FALSE
    /\ fetchInFlight' = [k \in 1..(Len(fetchInFlight) - 1) |->
                            IF k < i THEN fetchInFlight[k] ELSE fetchInFlight[k + 1]]
    /\ UNCHANGED <<page, restVars, vulnVars, versionsVars, user, mountUser,
                   localVulnerabilities, localUpgrades, scanResults, now>>

\* The INSERT handler's state update with the existing entry left in place
HandleInsertKeepExisting(prev, newActivity) == Slice(<<newActivity>> \o prev, FeedLimit)

\* setActivities(prev => [newActivity, ...prev.filter(a => a.id !== newActivity.id)].slice(0, 20))
HandleInsert(prev, newActivity) ==
    Slice(<<newActivity>> \o SeqFilter(prev, LAMBDA a : a.id # newActivity.id), FeedLimit)

\* A row is inserted into scan_results; when a user is signed in and the row's
\* repository is theirs, the INSERT handler puts its activity first
InsertScanResult(owner) ==
    /\ page = "dashboard"
    /\ Len(scanResults) < MaxScanResults
    /\ \A k \in 1..Len(scanResults) : scanResults[k].created_at # now
    /\ LET row == [id |-> ScanResultId(Len(scanResults) + 1), created_at |-> now,
                   user_id |-> owner]
           newActivity == generateActivityFromScanResult(row, "database", now)
       IN /\ scanResults' = Append(scanResults, row)
          /\ activities' = IF user # NULL /\ owner = user
                              THEN HandleInsert(activities, newActivity)
                              ELSE activities
    /\ UNCHANGED <<page, restVars, vulnVars, versionsVars, user, mountUser,
                   localVulnerabilities, localUpgrades, loading, error,
                   fetchInFlight, now>>

\* Time passes
Advance ==
    /\ page = "dashboard"
    /\ \E k \in 1..(Len(Instants) - 1) : now = Instants[k] /\ now' = Instants[k + 1]
    /\ UNCHANGED <<page, restVars, vulnVars, versionsVars, user, mountUser,
                   localVulnerabilities, localUpgrades, scanResults, activities,
                   loading, error, fetchInFlight>>

----------------------------------------------------------------------------
(* useRepositories: the list is fetched anew whenever the user changes     *)
(* (part_006:22-53), so the page may hand its modals another list while    *)
(* their state, the selection included, stays.                              *)

\* The lists a fetch may set: setRepositories([]) without a user, and the
\* user's rows ordered by name otherwise
RepositoryLists ==
    {<<>>, AllRepositories, <<AllRepositories[1]>>, <<AllRepositories[2]>>}

\* fetchRepositories from the settling of the query (or from `if (!user)`)
RepositoriesFetched(list) ==
    /\ list \in RepositoryLists
    /\ list # repositories
    /\ repositories' = list
    /\ UNCHANGED <<page, restVars, versionsVars, feedVars, scannedVulnerabilities,
                   isFixingVulnerability, errorDialog, fixInFlight,
                   selectedRepositories, isScanning, scanProgress, progress, scanRun>>

----------------------------------------------------------------------------
(* CoverageAnalysisModal (CoverageAnalysisModal.tsx:35-168).  Each          *)
(* repository takes two awaits: the timer of the simulated analysis and     *)
(* apiClient.runCoverageScan.                                               *)

\* coverage: null of a progress entry
NoCoverage == 0

\* Math.floor(Math.random() * 40) + 60: one value per status, and two
\* previous values
CoverageValues == {65, 75, 85}
PreviousCoverageValues == {65, 85}

\* How one runCoverageScan call is seen by the client
CoverageOutcomes == {"ok", "unsuccessful", "throws"}

\* No analysis is running
NoAnalysisRun ==
    [selected |-> <<>>, repos |-> <<>>, idx |-> 0, step |-> "idle",
     currentCoverage |-> NoCoverage, previousCoverage |-> NoCoverage,
     allResults |-> <<>>, completedAnalysis |-> 0]

\* setAnalysisProgress(prev => prev.map(item => ... { ...item, isAnalyzing: true }))
MarkAnalyzing(prev, repositoryId) ==
    [i \in 1..Len(prev) |->
        IF prev[i].repositoryId = repositoryId
           THEN [prev[i] EXCEPT !.isAnalyzing = TRUE]
           ELSE prev[i]]

\* The update that leaves isAnalyzing as it is
MarkAnalyzedStillAnalyzing(prev, repositoryId, coverage) ==
    [i \in 1..Len(prev) |->
        IF prev[i].repositoryId = repositoryId
           THEN [prev[i] EXCEPT !.isComplete = TRUE, !.coverage = coverage]
           ELSE prev[i]]

\* ... { ...item, isAnalyzing: false, isComplete: true, coverage }
MarkAnalyzed(prev, repositoryId, coverage) ==
    [i \in 1..Len(prev) |->
        IF prev[i].repositoryId = repositoryId
           THEN [prev[i] EXCEPT !.isAnalyzing = FALSE, !.isComplete = TRUE,
                                !.coverage = coverage]
           ELSE prev[i]]

\* currentCoverage >= 80 ? 'good' : currentCoverage >= 70 ? 'warning' : 'needs_improvement'
CoverageStatus(currentCoverage) ==
    IF currentCoverage >= 80 THEN "good"
    ELSE IF currentCoverage >= 70 THEN "warning" ELSE "needs_improvement"

CoverageUnchanged ==
    UNCHANGED <<page, vulnVars, versionsVars, feedVars, scannerLoadedOn, upgradeVars,
                improveVars, dialogVars, otherVars>>

\* The checkboxes exist only while the selection view is shown (!isAnalyzing)
\* and only for the listed repositories.
CoverageRepositoryToggle(repositoryId) ==
    /\ page = "coverage"
    /\ ~isAnalyzing
    /\ HasRepo(repositories, repositoryId)
    /\ analysisSelected' = Toggle(analysisSelected, repositoryId)
    /\ UNCHANGED <<isAnalyzing, analysisProgress, analysisPercent, analysisRun,
                   analysisResults>>
    /\ CoverageUnchanged

CoverageSelectAll ==
    /\ page = "coverage"
    /\ ~isAnalyzing
    /\ Len(repositories) # 0
    /\ analysisSelected' = SeqMap(repositories, LAMBDA repo : repo.id)
    /\ analysisSelected' # analysisSelected
    /\ UNCHANGED <<isAnalyzing, analysisProgress, analysisPercent, analysisRun,
                   analysisResults>>
    /\ CoverageUnchanged

CoverageDeselectAll ==
    /\ page = "coverage"
    /\ ~isAnalyzing
    /\ analysisSelected # <<>>
    /\ analysisSelected' = <<>>
    /\ UNCHANGED <<isAnalyzing, analysisProgress, analysisPercent, analysisRun,
                   analysisResults>>
    /\ CoverageUnchanged

\* startCoverageAnalysis up to its first await (or to its end when no selected
\* repository is found)
StartCoverageAnalysis ==
    /\ page = "coverage"
    /\ ~isAnalyzing
    /\ Len(analysisSelected) # 0
    /\ LET selected == analysisSelected
           initialProgress ==
               [i \in 1..Len(selected) |->
                   [repositoryId |-> selected[i],
                    repositoryName |-> RepositoryName(repositories, selected[i]),
                    isAnalyzing |-> FALSE, isComplete |-> FALSE,
                    coverage |-> NoCoverage]]
           first == NextFound(selected, repositories, 1)
       IN /\ analysisPercent' = <<0, 1>>
          /\ IF first > Len(selected)
                THEN /\ isAnalyzing' = FALSE
                     /\ analysisProgress' = initialProgress
                     /\ analysisRun' = NoAnalysisRun
                     /\ analysisResults' = <<>>
                ELSE /\ isAnalyzing' = TRUE
                     /\ analysisProgress' = MarkAnalyzing(initialProgress, selected[first])
                     /\ analysisRun' = [NoAnalysisRun EXCEPT
                                           !.selected = selected,
                                           !.repos = repositories,
                                           !.idx = first,
                                           !.step = "timer"]
                     /\ UNCHANGED analysisResults
    /\ UNCHANGED analysisSelected
    /\ CoverageUnchanged

\* From the timer of the simulated analysis to the runCoverageScan call
CoverageTimer(currentCoverage, previousCoverage) ==
    /\ page = "coverage"
    /\ analysisRun.step = "timer"
    /\ analysisRun' = [analysisRun EXCEPT
                          !.step = "storing",
                          !.currentCoverage = currentCoverage,
                          !.previousCoverage = previousCoverage]
    /\ UNCHANGED <<analysisSelected, isAnalyzing, analysisProgress, analysisPercent,
                   analysisResults>>
    /\ CoverageUnchanged

\* From the settling of runCoverageScan to the next await, or to the end of
\* the function
CoverageScanResponse(outcome) ==
    /\ page = "coverage"
    /\ analysisRun.step = "storing"
    /\ LET selected == analysisRun.selected
           repositoryId == selected[analysisRun.idx]
           repo == FindRepo(analysisRun.repos, repositoryId)
           currentCoverage == analysisRun.currentCoverage
           allResults ==
               IF outcome = "ok"
                  THEN Append(analysisRun.allResults,
                              [repositoryId |-> repo.id,
                               coverage |-> currentCoverage,
                               previousCoverage |-> analysisRun.previousCoverage,
                               trend |-> currentCoverage - analysisRun.previousCoverage,
                               status |-> CoverageStatus(currentCoverage)])
                  ELSE analysisRun.allResults
           completedAnalysis == analysisRun.completedAnalysis + 1
           next == NextFound(selected, analysisRun.repos, analysisRun.idx + 1)
           completed == MarkAnalyzed(analysisProgress, repositoryId,
                                     IF outcome = "ok" THEN currentCoverage
                                                       ELSE NoCoverage)
       IN /\ analysisPercent' = <<completedAnalysis, Len(selected)>>
          /\ IF next > Len(selected)
                THEN /\ isAnalyzing' = FALSE
                     /\ analysisProgress' = completed
                     /\ analysisRun' = NoAnalysisRun
                     /\ analysisResults' = allResults
                ELSE /\ isAnalyzing' = TRUE
                     /\ analysisProgress' = MarkAnalyzing(completed, selected[next])
                     /\ analysisRun' = [analysisRun EXCEPT
                                           !.idx = next,
                                           !.step = "timer",
                                           !.currentCoverage = NoCoverage,
                                           !.previousCoverage = NoCoverage,
                                           !.allResults = allResults,
                                           !.completedAnalysis = completedAnalysis]
                     /\ UNCHANGED analysisResults
    /\ UNCHANGED analysisSelected
    /\ CoverageUnchanged

----------------------------------------------------------------------------
(* The improve-coverage function (part_009).  The handler runs from one     *)
(* await to the next; each action below is the arrival of one awaited       *)
(* GitHub response followed by the code up to the next await.  What GitHub  *)
(* answers is the environment's choice: "ok", "rejected" (an HTTP error     *)
(* status; fetch resolves, response.ok is false) or "throws" (fetch or      *)
(* response.json() rejects).                                               *)

\* Math.min(3, srcFiles.length)
TestFileLimit == 3

\* The repositories a request can name
ImproveRepositories ==
    {[id |-> "r1", language |-> "JavaScript"], [id |-> "r2", language |-> "Python"]}

MaxImproveRepositories == 2

\* The request bodies considered, each with GITHUB_TOKEN set or not
ImproveRequests ==
    {[repositories |-> rs, githubToken |-> t] :
        rs \in UNION {[1..n -> ImproveRepositories] : n \in 0..MaxImproveRepositories},
        t \in BOOLEAN}

\* What GitHub has received for one repository of the request
NoVcsCalls == [base |-> "none", branch |-> "none", filesPut |-> 0,
               filesWritten |-> 0, pullRequested |-> FALSE]

\* No response returned yet
NoResponse == [status |-> 0, results |-> <<>>]

NoImproveRun == [idx |-> 0, step |-> "idle", testFiles |-> 0, vcs |-> <<>>]

FetchOutcomes == {"ok", "rejected", "throws"}

\* srcFiles.length for the listings considered
SrcFileCounts == {0, 1, 4}

\* error.message of what fetch or response.json() throws, and of the
\* TypeError at branchData.object.sha
FetchFailed == "Failed to fetch"
NoObject == "Cannot read properties of undefined (reading 'sha')"

\* results.push in the catch block, and a catch that records nothing
CatchResultDropped(rs, repo, message) == rs
CatchResult(rs, repo, message) ==
    Append(rs, [repositoryId |-> repo.id, success |-> FALSE, error |-> message])

\* results.push of the three other branches
RepoFailure(rs, repo) ==
    Append(rs, [repositoryId |-> repo.id, success |-> FALSE,
                error |-> "Failed to access repository"])

PullRequestFailure(rs, repo) ==
    Append(rs, [repositoryId |-> repo.id, success |-> FALSE,
                error |-> "Failed to create pull request"])

PullRequestSuccess(rs, repo) ==
    Append(rs, [repositoryId |-> repo.id, success |-> TRUE, error |-> NULL])

\* testFiles.length when the contents listing was read
GenerateTestFiles(repo, srcFiles) ==
    IF repo.language \in {"JavaScript", "TypeScript"}
       THEN IF srcFiles < TestFileLimit THEN srcFiles ELSE TestFileLimit
       ELSE 1

\* The repository of the running iteration
CurrentRepo == improveRequest.repositories[improveRun.idx]

\* The record of the running iteration with one field replaced
VcsWith(field, value) ==
    [improveRun.vcs EXCEPT ![improveRun.idx] = [@ EXCEPT ![field] = value]]

\* The for loop moves on with results rs: the next iteration's first fetch is
\* sent, or the response with the results is returned
ImproveContinue(rs, vcs) ==
    /\ improveResults' = rs
    /\ IF improveRun.idx < Len(improveRequest.repositories)
          THEN /\ improveRun' = [idx |-> improveRun.idx + 1, step |-> "repo",
                                 testFiles |-> 0, vcs |-> Append(vcs, NoVcsCalls)]
               /\ improveResponse' = NoResponse
          ELSE /\ improveRun' = [idx |-> 0, step |-> "done", testFiles |-> 0, vcs |-> vcs]
               /\ improveResponse' = [status |-> 200, results |-> rs]

ImproveUnchanged ==
    UNCHANGED <<page, vulnVars, versionsVars, feedVars, scannerLoadedOn, upgradeVars,
                coverageVars, dialogVars, improveRequest, otherVars>>

\* The handler up to the first fetch
ImproveServe ==
    /\ page = "improve-coverage"
    /\ improveRun.step = "idle"
    /\ improveResponse = NoResponse
    /\ IF Len(improveRequest.repositories) = 0
          THEN /\ improveResponse' = [status |-> 400, results |-> <<>>]
               /\ improveRun' = [improveRun EXCEPT !.step = "done"]
          ELSE IF ~improveRequest.githubToken
          THEN /\ improveResponse' = [status |-> 500, results |-> <<>>]
               /\ improveRun' = [improveRun EXCEPT !.step = "done"]
          ELSE /\ improveResponse' = NoResponse
               /\ improveRun' = [idx |-> 1, step |-> "repo", testFiles |-> 0,
                                 vcs |-> <<NoVcsCalls>>]
    /\ improveResults' = <<>>
    /\ ImproveUnchanged

\* GET /repos/{full_name} answered
RepoResponse(outcome) ==
    /\ page = "improve-coverage"
    /\ improveRun.step = "repo"
    /\ CASE outcome = "rejected" ->
              ImproveContinue(RepoFailure(improveResults, CurrentRepo), improveRun.vcs)
         [] outcome = "throws" ->
              ImproveContinue(CatchResult(improveResults, CurrentRepo, FetchFailed), improveRun.vcs)
         [] OTHER ->
              /\ improveRun' = [improveRun EXCEPT !.step = "base"]
              /\ UNCHANGED <<improveResults, improveResponse>>
    /\ ImproveUnchanged

\* GET /git/refs/heads/{defaultBranch} answered; an error body has no `object`
BaseResponse(outcome) ==
    /\ page = "improve-coverage"
    /\ improveRun.step = "base"
    /\ CASE outcome = "rejected" ->
              ImproveContinue(CatchResult(improveResults, CurrentRepo, NoObject),
                              VcsWith("base", "rejected"))
         [] outcome = "throws" ->
              ImproveContinue(CatchResult(improveResults, CurrentRepo, FetchFailed),
                              VcsWith("base", "failed"))
         [] OTHER ->
              /\ improveRun' = [improveRun EXCEPT !.step = "branch",
                                                  !.vcs = VcsWith("base", "read")]
              /\ UNCHANGED <<improveResults, improveResponse>>
    /\ ImproveUnchanged

\* POST /git/refs answered; the response is not looked at
CreateBranchResponse(outcome) ==
    /\ page = "improve-coverage"
    /\ improveRun.step = "branch"
    /\ CASE outcome = "throws" ->
              ImproveContinue(CatchResult(improveResults, CurrentRepo, FetchFailed),
                              VcsWith("branch", "failed"))
         [] OTHER ->
              /\ improveRun' =
                    [improveRun EXCEPT
                        !.step = "contents",
                        !.vcs = VcsWith("branch", IF outcome = "ok" THEN "created"
                                                                     ELSE "rejected")]
              /\ UNCHANGED <<improveResults, improveResponse>>
    /\ ImproveUnchanged

\* The request that follows the test files: the next PUT, or POST /pulls
AfterTestFiles(left, vcs) ==
    IF left > 0
       THEN [improveRun EXCEPT
                !.step = "put", !.testFiles = left,
                !.vcs = [vcs EXCEPT ![improveRun.idx].filesPut = @ + 1]]
       ELSE [improveRun EXCEPT
                !.step = "pull", !.testFiles = 0,
                !.vcs = [vcs EXCEPT ![improveRun.idx].pullRequested = TRUE]]

\* generateTestFiles: GET /contents answered
ContentsResponse(outcome, srcFiles) ==
    /\ page = "improve-coverage"
    /\ improveRun.step = "contents"
    /\ CASE outcome = "throws" ->
              ImproveContinue(CatchResult(improveResults, CurrentRepo, FetchFailed), improveRun.vcs)
         [] OTHER ->
              /\ improveRun' =
                    AfterTestFiles(IF outcome = "ok"
                                      THEN GenerateTestFiles(CurrentRepo, srcFiles)
                                      ELSE 0,
                                   improveRun.vcs)
              /\ UNCHANGED <<improveResults, improveResponse>>
    /\ ImproveUnchanged

\* createOrUpdateFile: PUT /contents/{path} answered; the response is not
\* looked at
PutFileResponse(outcome) ==
    /\ page = "improve-coverage"
    /\ improveRun.step = "put"
    /\ CASE outcome = "throws" ->
              ImproveContinue(CatchResult(improveResults, CurrentRepo, FetchFailed), improveRun.vcs)
         [] OTHER ->
              /\ improveRun' =
                    AfterTestFiles(improveRun.testFiles - 1,
                                   IF outcome = "ok"
                                      THEN [improveRun.vcs EXCEPT
                                               ![improveRun.idx].filesWritten = @ + 1]
                                      ELSE improveRun.vcs)
              /\ UNCHANGED <<improveResults, improveResponse>>
    /\ ImproveUnchanged

\* POST /pulls answered
PullRequestResponse(outcome) ==
    /\ page = "improve-coverage"
    /\ improveRun.step = "pull"
    /\ CASE outcome = "ok" ->
              ImproveContinue(PullRequestSuccess(improveResults, CurrentRepo), improveRun.vcs)
         [] outcome = "rejected" ->
              ImproveContinue(PullRequestFailure(improveResults, CurrentRepo), improveRun.vcs)
         [] OTHER ->
              ImproveContinue(CatchResult(improveResults, CurrentRepo, FetchFailed), improveRun.vcs)
    /\ ImproveUnchanged

----------------------------------------------------------------------------
(* ImproveCoverageModal (ReportGenerationModal.tsx:429-653).  The dialog    *)
(* sends one request for all selected repositories; the function answers    *)
(* with one result for each repository of the request (part_009:50-173).    *)
(* Closing the dialog resets its state but not a call that is in flight.    *)

\* coverage_percentage of a repository row; NoCoverage stands for null,
\* which `repo.coverage_percentage || 0` reads as 0
ModalCoverageValues == {NoCoverage, 65, 85}

\* What useRepositories may hand the dialog
ModalRepositoryLists ==
    {<<>>}
    \cup {<<[id |-> r, coverage_percentage |-> c]>> :
              r \in RepoIds, c \in ModalCoverageValues}
    \cup {<<[id |-> "r1", coverage_percentage |-> c1],
             [id |-> "r2", coverage_percentage |-> c2]>> :
              c1 \in ModalCoverageValues, c2 \in ModalCoverageValues}

\* Calls of apiClient.improveCoverage that may be in flight together
MaxImproveCalls == 2

\* How the client sees the call: `result.data?.success` or not
ImproveCallOutcomes == {"ok", "failed"}

NoImprovements == <<>>

\* repositories.map(...).filter(repo => (repo.currentCoverage || 0) < 80)
repositoriesWithCoverage(repos) ==
    SeqFilter(repos, LAMBDA repo : repo.coverage_percentage < 80)

\* selectedRepositories.map(find ...).filter(repo => repo.full_name), as ids
SelectedRepos(selected, repos) ==
    SeqFilter(selected, LAMBDA repoId : HasRepo(repositoriesWithCoverage(repos), repoId))

\* initialImprovements
InitialImprovements(selected) ==
    [repoId \in Range(selected) |-> [status |-> "pending", progress |-> 0]]

\* setImprovements(prev => { selectedRepositories.forEach(repoId =>
\*    updated[repoId] = {...updated[repoId], status, progress}) })
MarkAll(prev, selected, status, percent) ==
    [repoId \in DOMAIN prev \cup Range(selected) |->
        IF repoId \in Range(selected)
           THEN [status |-> status, progress |-> percent]
           ELSE prev[repoId]]

\* The result handling that leaves a failed result's record as it is
ApplyResultSuccessOnly(prev, repoId, success) ==
    IF success
       THEN [r \in DOMAIN prev \cup {repoId} |->
                IF r = repoId THEN [status |-> "completed", progress |-> 100]
                ELSE prev[r]]
       ELSE prev

\* setImprovements(prev => ({...prev, [repoId]: {...prev[repoId], status, progress: 100}}))
ApplyResult(prev, repoId, success) ==
    [r \in DOMAIN prev \cup {repoId} |->
        IF r = repoId
           THEN [status |-> IF success THEN "completed" ELSE "error", progress |-> 100]
           ELSE prev[r]]

\* results.forEach(...) from result i on
RECURSIVE ApplyResults(_, _, _)
ApplyResults(prev, results, i) ==
    IF i > Len(results) THEN prev
    ELSE LET next == ApplyResult(prev, results[i].repositoryId, results[i].success)
         IN IF DOMAIN next # {} THEN ApplyResults(next, results, i + 1) ELSE next

\* The results of the function: one for each repository of the request
FunctionResults(request, succeeded) ==
    [i \in 1..Len(request) |->
        [repositoryId |-> request[i], success |-> request[i] \in succeeded]]

ModalUnchanged == UNCHANGED <<firstVars, metricsVars, clientVars, sqliteVars>>

\* handleRepositoryToggle, from a checkbox of the list shown
ImproveRepositoryToggle(repoId) ==
    /\ ~isImproving
    /\ HasRepo(repositoriesWithCoverage(modalRepositories), repoId)
    /\ modalSelected' = Toggle(modalSelected, repoId)
    /\ UNCHANGED <<modalRepositories, isImproving, improvements, modalProgress,
                   improveInFlight>>
    /\ ModalUnchanged

\* selectAllRepositories
ImproveSelectAll ==
    /\ ~isImproving
    /\ modalSelected' = [i \in 1..Len(repositoriesWithCoverage(modalRepositories)) |->
                            repositoriesWithCoverage(modalRepositories)[i].id]
    /\ modalSelected' # modalSelected
    /\ UNCHANGED <<modalRepositories, isImproving, improvements, modalProgress,
                   improveInFlight>>
    /\ ModalUnchanged

\* deselectAllRepositories
ImproveDeselectAll ==
    /\ ~isImproving
    /\ modalSelected # <<>>
    /\ modalSelected' = <<>>
    /\ UNCHANGED <<modalRepositories, isImproving, improvements, modalProgress,
                   improveInFlight>>
    /\ ModalUnchanged

\* useRepositories settles a fetch (part_006:22-53), also after refetch()
ModalRepositoriesFetched(list) ==
    /\ list \in ModalRepositoryLists
    /\ list # modalRepositories
    /\ modalRepositories' = list
    /\ UNCHANGED <<modalSelected, isImproving, improvements, modalProgress,
                   improveInFlight>>
    /\ ModalUnchanged

\* startCoverageImprovement up to `await apiClient.improveCoverage`
StartCoverageImprovement ==
    /\ ~isImproving
    /\ Len(modalSelected) > 0
    /\ Len(improveInFlight) < MaxImproveCalls
    /\ isImproving' = TRUE
    /\ modalProgress' = 0
    /\ improvements' = MarkAll(InitialImprovements(modalSelected), modalSelected,
                               "analyzing", 30)
    /\ improveInFlight' =
          Append(improveInFlight,
                 [selected |-> modalSelected,
                  request |-> SelectedRepos(modalSelected, modalRepositories)])
    /\ UNCHANGED <<modalRepositories, modalSelected>>
    /\ ModalUnchanged

\* startCoverageImprovement from the settling of call c to its end.  The
\* function refuses an empty request (part_009:27-35).
ImproveCoverageResponse(c, outcome, succeeded) ==
    /\ c \in 1..Len(improveInFlight)
    /\ outcome \in ImproveCallOutcomes
    /\ succeeded \subseteq Range(improveInFlight[c].request)
    /\ outcome = "ok" => Len(improveInFlight[c].request) > 0
    /\ outcome = "failed" => succeeded = {}
    /\ LET call == improveInFlight[c]
       IN improvements' =
             IF outcome = "ok"
                THEN ApplyResults(MarkAll(improvements, call.selected, "generating", 70),
                                  FunctionResults(call.request, succeeded), 1)
                ELSE MarkAll(improvements, call.selected, "error", 100)
    /\ modalProgress' = 100
    /\ improveInFlight' = [k \in 1..(Len(improveInFlight) - 1) |->
                              improveInFlight[IF k < c THEN k ELSE k + 1]]
    /\ UNCHANGED <<modalRepositories, modalSelected, isImproving>>
    /\ ModalUnchanged

\* handleOpenChange(false)
ImproveHandleClose ==
    /\ <<modalSelected, isImproving, improvements, modalProgress>>
          # <<(<<>>), FALSE, NoImprovements, 0>>
    /\ modalSelected' = <<>>
    /\ isImproving' = FALSE
    /\ improvements' = NoImprovements
    /\ modalProgress' = 0
    /\ UNCHANGED <<modalRepositories, improveInFlight>>
    /\ ModalUnchanged

----------------------------------------------------------------------------
(* ApiClient (part_004:132-206) and AuthProvider (AuthContext.tsx:26-95).   *)
(* The client keeps the access token in a field and in localStorage; the    *)
(* provider checks the stored token when it mounts.  A request reads the    *)
(* field when it is sent; what the server answers is the environment's      *)
(* choice.                                                                  *)

\* Tokens the server hands out, and one left in localStorage by an earlier visit
ServerTokens == {"t1", "t2"}
StoredTokens == {NULL, "t0", "t1"}

\* response.access_token: a token, or nothing
ResponseTokens == ServerTokens \cup {NULL}

AuthUsers == {"u1"}

\* Requests of the auth endpoints that may be in flight together
MaxAuthCalls == 2

AuthOutcomes == {"ok", "throws"}

\* request(): the Authorization header is the token held when it is sent
AuthRequest(endpoint) ==
    [endpoint |-> endpoint, authorization |-> accessToken]

AuthSettled(c) ==
    [k \in 1..(Len(authInFlight) - 1) |-> authInFlight[IF k < c THEN k ELSE k + 1]]

ClientUnchanged == UNCHANGED <<firstVars, metricsVars, modalVars, sqliteVars>>

\* checkAuth up to `await apiClient.getCurrentUser()`, or to its end when
\* no token is stored
CheckAuth ==
    /\ ~authChecked
    /\ authChecked' = TRUE
    /\ IF storedToken # NULL
          THEN /\ authInFlight' = Append(authInFlight, AuthRequest("/auth/me"))
               /\ UNCHANGED authLoading
          ELSE /\ authLoading' = FALSE
               /\ UNCHANGED authInFlight
    /\ UNCHANGED <<accessToken, storedToken, authUser>>
    /\ ClientUnchanged

\* The catch of checkAuth: localStorage.removeItem('access_token')
CheckAuthFailed ==
    /\ storedToken' = NULL
    /\ UNCHANGED <<accessToken, authUser>>

\* checkAuth from the settling of getCurrentUser to its end
CheckAuthResponse(c, outcome) ==
    /\ c \in 1..Len(authInFlight)
    /\ authInFlight[c].endpoint = "/auth/me"
    /\ outcome \in AuthOutcomes
    /\ IF outcome = "ok"
          THEN /\ \E currentUser \in AuthUsers : authUser' = currentUser
               /\ UNCHANGED <<accessToken, storedToken>>
          ELSE CheckAuthFailed
    /\ authLoading' = FALSE
    /\ authInFlight' = AuthSettled(c)
    /\ UNCHANGED authChecked
    /\ ClientUnchanged

\* signIn / signUp up to the await of the request in login / register
ProviderSign(endpoint) ==
    /\ endpoint \in {"/auth/login", "/auth/register"}
    /\ Len(authInFlight) < MaxAuthCalls
    /\ authInFlight' = Append(authInFlight, AuthRequest(endpoint))
    /\ UNCHANGED <<accessToken, storedToken, authUser, authLoading, authChecked>>
    /\ ClientUnchanged

\* login / register from the settling of the request, then the rest of
\* signIn / signUp
SignResponse(c, outcome, token) ==
    /\ c \in 1..Len(authInFlight)
    /\ authInFlight[c].endpoint \in {"/auth/login", "/auth/register"}
    /\ outcome \in AuthOutcomes
    /\ token \in ResponseTokens
    /\ IF outcome = "ok"
          THEN /\ IF token # NULL
                     THEN accessToken' = token /\ storedToken' = token
                     ELSE UNCHANGED <<accessToken, storedToken>>
               /\ \E responseUser \in AuthUsers : authUser' = responseUser
          ELSE /\ token = NULL
               /\ UNCHANGED <<accessToken, storedToken, authUser>>
    /\ authInFlight' = AuthSettled(c)
    /\ UNCHANGED <<authLoading, authChecked>>
    /\ ClientUnchanged

\* signOut: apiClient.logout() and setUser(null)
ProviderSignOut ==
    /\ <<accessToken, storedToken, authUser>> # <<NULL, NULL, NULL>>
    /\ accessToken' = NULL
    /\ storedToken' = NULL
    /\ authUser' = NULL
    /\ UNCHANGED <<authLoading, authChecked, authInFlight>>
    /\ ClientUnchanged

----------------------------------------------------------------------------
(* SQLiteAuth (AuthContext.tsx:224-391).  users and sessions are maps of    *)
(* the module, the current token is in localStorage.  Each method runs      *)
(* without an await, so each call is one step.  An access token is a        *)
(* uuid; the n-th one created is modelled as <<n>>, no token as <<>>.       *)

Emails == {"a@x", "b@x"}
Passwords == {"p1", "p2"}

\* Sign-ins and clock readings considered
MaxTokens == 3
MaxClock == 3

\* 24 * 60 * 60 * 1000 ms, in half days
SessionLifetime == 2

Token(n) == <<n>>
NoToken == <<>>
AllTokens == {Token(n) : n \in 1..MaxTokens}

NoSession == [access_token |-> NoToken, user |-> NULL, expires_at |-> 0]

\* How the INSERT INTO profiles ends
InsertOutcomes == {"ok", "throws"}

AuthReturn(op, who, err) == [op |-> op, user |-> who, error |-> err]

\* getCurrentSession: the session it returns
getCurrentSession(map, token, time) ==
    IF token = NoToken THEN NoSession
    ELSE IF token \notin DOMAIN map THEN NoSession
    ELSE IF map[token].expires_at < time THEN NoSession
    ELSE map[token]

\* Map.prototype.delete
MapDelete(map, key) == [k \in DOMAIN map \ {key} |-> map[k]]

\* Map.prototype.set
MapSet(map, key, value) ==
    [k \in DOMAIN map \cup {key} |-> IF k = key THEN value ELSE map[k]]

\* getCurrentSession: the sessions map and the stored token it leaves
SessionsAfterLookup(map, token, time) ==
    IF token # NoToken /\ getCurrentSession(map, token, time) = NoSession
       THEN MapDelete(map, token)
       ELSE map

TokenAfterLookup(map, token, time) ==
    IF getCurrentSession(map, token, time) = NoSession THEN NoToken ELSE token

\* sessions.get(token) of getUser
getUser(map, token) ==
    IF token \in DOMAIN map THEN map[token] ELSE NoSession

SqliteUnchanged == UNCHANGED <<firstVars, metricsVars, modalVars, clientVars>>

\* signUp
SqliteSignUp(email, password, insert) ==
    /\ email \in Emails
    /\ password \in Passwords
    /\ insert \in InsertOutcomes
    /\ IF email \in DOMAIN users
          THEN /\ insert = "ok"
               /\ authResult' = AuthReturn("signUp", NULL, "User already exists")
               /\ UNCHANGED <<users, profileRows>>
          ELSE /\ users' = MapSet(users, email, password)
               /\ IF insert = "ok"
                     THEN /\ profileRows' = profileRows \cup {email}
                          /\ authResult' = AuthReturn("signUp", NULL, NULL)
                     ELSE /\ UNCHANGED profileRows
                          /\ authResult' = AuthReturn("signUp", NULL, "SqliteError")
    /\ UNCHANGED <<sessions, sqliteToken, clock, issued>>
    /\ SqliteUnchanged

\* signInWithPassword, with createSession
SignInWithPassword(email, password) ==
    /\ email \in Emails
    /\ password \in Passwords
    /\ IF email \notin DOMAIN users \/ users[email] # password
          THEN /\ authResult' = AuthReturn("signInWithPassword", NULL, "Invalid credentials")
               /\ UNCHANGED <<sessions, sqliteToken, issued>>
          ELSE /\ issued < MaxTokens
               /\ issued' = issued + 1
               /\ sessions' = MapSet(sessions, Token(issued'),
                                     [access_token |-> Token(issued'),
                                      user |-> email,
                                      expires_at |-> clock + SessionLifetime])
               /\ sqliteToken' = Token(issued')
               /\ authResult' = AuthReturn("signInWithPassword", email, NULL)
    /\ UNCHANGED <<users, clock, profileRows>>
    /\ SqliteUnchanged

\* signOut
SqliteSignOut ==
    /\ LET currentSession == getCurrentSession(sessions, sqliteToken, clock)
           looked == SessionsAfterLookup(sessions, sqliteToken, clock)
       IN sessions' = IF currentSession # NoSession
                         THEN MapDelete(looked, currentSession.access_token)
                         ELSE looked
    /\ sqliteToken' = TokenAfterLookup(sessions, sqliteToken, clock)
    /\ authResult' = AuthReturn("signOut", NULL, NULL)
    /\ UNCHANGED <<users, clock, issued, profileRows>>
    /\ SqliteUnchanged

\* getSession
GetSession ==
    /\ authResult' = AuthReturn("getSession",
                                getCurrentSession(sessions, sqliteToken, clock).user, NULL)
    /\ sessions' = SessionsAfterLookup(sessions, sqliteToken, clock)
    /\ sqliteToken' = TokenAfterLookup(sessions, sqliteToken, clock)
    /\ UNCHANGED <<users, clock, issued, profileRows>>
    /\ SqliteUnchanged

\* getUser(token)
GetUser(token) ==
    /\ token \in AllTokens
    /\ authResult' = AuthReturn("getUser", getUser(sessions, token).user, NULL)
    /\ UNCHANGED <<users, sessions, sqliteToken, clock, issued, profileRows>>
    /\ SqliteUnchanged

\* Time passes
ClockTick ==
    /\ clock < MaxClock
    /\ clock' = clock + 1
    /\ UNCHANGED <<users, sessions, sqliteToken, issued, profileRows, authResult>>
    /\ SqliteUnchanged

----------------------------------------------------------------------------
(* Upgrade requests: Versions.handleStartUpgrade, UpgradeSelectionModal     *)
(* (part_001:362-583) and BulkUpgradeModal (part_002).  The page opens the  *)
(* selection dialog from the Start button of a pending row and hands        *)
(* scannedUpgrades to the bulk dialog, so both need a non-empty upgrade     *)
(* list.  The lists considered are the ones UpgradeResults yields for the   *)
(* versions detected in the repositories.                                   *)

MaxUpgrades == 2

\* useState("") of the selection dialog's three selects
EmptyUpgradeForm ==
    [selectedRepository |-> "", selectedTechnology |-> "", selectedVersion |-> ""]

MaxUpgradeRequests == 2

\* The repositoryUpdates a scan leaves when every detection succeeded
DetectedUpdates ==
    [r \in 1..Len(allRepositories) |->
        [repository |-> allRepositories[r].id,
         technologies |->
            [t \in 1..Len(relevantTechnologies) |->
                LET tech == relevantTechnologies[t]
                    currentVersion == DetectedVersion(allRepositories[r].id, tech)
                IN [name |-> tech,
                    currentVersion |-> currentVersion,
                    latestVersion |-> technologyVersions(tech)[1],
                    needsUpdate |-> currentVersion # NULL
                                       /\ NeedsUpdate(tech, currentVersion)]],
         isScanning |-> FALSE,
         scanned |-> TRUE]]

\* The upgrade lists the page is considered with: the first upgrades found
UpgradeLists == {Slice(UpgradeResults(DetectedUpdates), n) : n \in 1..MaxUpgrades}

\* `${upgrade.repositoryId}-${upgrade.technology}`; repository ids and
\* technology names determine the text, so the pair stands for it
UpgradeKey(upgrade) == <<upgrade.repositoryId, upgrade.technology>>

\* scannedUpgrades.filter(upgrade => upgrade.status === 'pending')
PendingUpgrades(upgrades) == SeqFilter(upgrades, LAMBDA upgrade : upgrade.status = "pending")

\* The technologies and target versions the selection form is tried with
FormTechnologies == {"Java", "Python"}

FormVersions(tech) == {technologyVersions(tech)[i] : i \in 1..2}

\* loading={repositoriesLoading || privateReposLoading || isCreatingUpgrade},
\* with both repository lists loaded
UpgradeLoading == isCreatingUpgrade

\* The data handed to onStartUpgrade
UpgradeRequest(repositoryId, technology, targetVersion) ==
    [repositoryId |-> repositoryId, technology |-> technology,
     targetVersion |-> targetVersion]

\* The calls still to make fit the number of requests considered
RequestsFit(n) == Len(upgradeInFlight) + Len(pullRequests) + n <= MaxUpgradeRequests

UpgradeUnchanged ==
    UNCHANGED <<page, vulnVars, versionsVars, feedVars, scannerLoadedOn, coverageVars,
                improveVars, dialogVars, otherVars>>

\* The Start button of a pending row
OpenUpgradeModal ==
    /\ page = "versions"
    /\ ~isUpgradeModalOpen /\ ~isBulkUpgradeModalOpen /\ ~isScanUpdatesOpen
    /\ Len(PendingUpgrades(scannedUpgrades)) > 0
    /\ isUpgradeModalOpen' = TRUE
    /\ UNCHANGED <<isCreatingUpgrade, isBulkUpgradeModalOpen, upgradeForm,
                   selectedUpgrades, upgradeInFlight, pullRequests>>
    /\ UpgradeUnchanged

\* Cancel in the selection dialog: onOpenChange(false)
CloseUpgradeModal ==
    /\ page = "versions"
    /\ isUpgradeModalOpen
    /\ isUpgradeModalOpen' = FALSE
    /\ UNCHANGED <<isCreatingUpgrade, isBulkUpgradeModalOpen, upgradeForm,
                   selectedUpgrades, upgradeInFlight, pullRequests>>
    /\ UpgradeUnchanged

\* onValueChange of the repository select (disabled while loading)
SetSelectedRepository(repositoryId) ==
    /\ page = "versions"
    /\ isUpgradeModalOpen
    /\ ~UpgradeLoading
    /\ HasRepo(allRepositories, repositoryId)
    /\ upgradeForm' = [upgradeForm EXCEPT !.selectedRepository = repositoryId]
    /\ UNCHANGED <<isCreatingUpgrade, isUpgradeModalOpen, isBulkUpgradeModalOpen,
                   selectedUpgrades, upgradeInFlight, pullRequests>>
    /\ UpgradeUnchanged

\* onValueChange of the technology select
SetSelectedTechnology(technology) ==
    /\ page = "versions"
    /\ isUpgradeModalOpen
    /\ upgradeForm' = [upgradeForm EXCEPT !.selectedTechnology = technology,
                                          !.selectedVersion = ""]
    /\ UNCHANGED <<isCreatingUpgrade, isUpgradeModalOpen, isBulkUpgradeModalOpen,
                   selectedUpgrades, upgradeInFlight, pullRequests>>
    /\ UpgradeUnchanged

\* onValueChange of the target version select (disabled without a technology)
SetSelectedVersion(version) ==
    /\ page = "versions"
    /\ isUpgradeModalOpen
    /\ upgradeForm.selectedTechnology # ""
    /\ version \in Range(technologyVersions(upgradeForm.selectedTechnology))
    /\ upgradeForm' = [upgradeForm EXCEPT !.selectedVersion = version]
    /\ UNCHANGED <<isCreatingUpgrade, isUpgradeModalOpen, isBulkUpgradeModalOpen,
                   selectedUpgrades, upgradeInFlight, pullRequests>>
    /\ UpgradeUnchanged

\* UpgradeSelectionModal.handleStartUpgrade, with Versions.handleStartUpgrade
\* up to its await
StartUpgrade ==
    /\ page = "versions"
    /\ isUpgradeModalOpen
    /\ upgradeForm.selectedRepository # ""
    /\ upgradeForm.selectedTechnology # ""
    /\ upgradeForm.selectedVersion # ""
    /\ ~UpgradeLoading
    /\ RequestsFit(1)
    /\ isCreatingUpgrade' = TRUE
    /\ upgradeInFlight' =
          Append(upgradeInFlight,
                 UpgradeRequest(upgradeForm.selectedRepository,
                                upgradeForm.selectedTechnology,
                                upgradeForm.selectedVersion))
    /\ upgradeForm' = EmptyUpgradeForm
    /\ isUpgradeModalOpen' = FALSE
    /\ UNCHANGED <<isBulkUpgradeModalOpen, selectedUpgrades, pullRequests>>
    /\ UpgradeUnchanged

\* The Start All Upgrades button of the page
OpenBulkUpgradeModal ==
    /\ page = "versions"
    /\ ~isUpgradeModalOpen /\ ~isBulkUpgradeModalOpen /\ ~isScanUpdatesOpen
    /\ isBulkUpgradeModalOpen' = TRUE
    /\ UNCHANGED <<isCreatingUpgrade, isUpgradeModalOpen, upgradeForm,
                   selectedUpgrades, upgradeInFlight, pullRequests>>
    /\ UpgradeUnchanged

\* Cancel in the bulk dialog
CancelBulkUpgrade ==
    /\ page = "versions"
    /\ isBulkUpgradeModalOpen
    /\ selectedUpgrades' = {}
    /\ isBulkUpgradeModalOpen' = FALSE
    /\ UNCHANGED <<isCreatingUpgrade, isUpgradeModalOpen, upgradeForm,
                   upgradeInFlight, pullRequests>>
    /\ UpgradeUnchanged

\* handleUpgradeToggle: the checkbox of a pending upgrade
HandleUpgradeToggle(upgradeKey, checked) ==
    /\ page = "versions"
    /\ isBulkUpgradeModalOpen
    /\ \E i \in 1..Len(PendingUpgrades(scannedUpgrades)) :
          UpgradeKey(PendingUpgrades(scannedUpgrades)[i]) = upgradeKey
    /\ checked = (upgradeKey \notin selectedUpgrades)
    /\ selectedUpgrades' = IF checked THEN selectedUpgrades \cup {upgradeKey}
                                      ELSE selectedUpgrades \ {upgradeKey}
    /\ UNCHANGED <<isCreatingUpgrade, isUpgradeModalOpen, isBulkUpgradeModalOpen,
                   upgradeForm, upgradeInFlight, pullRequests>>
    /\ UpgradeUnchanged

\* handleSelectAll
HandleSelectAll ==
    /\ page = "versions"
    /\ isBulkUpgradeModalOpen
    /\ Len(PendingUpgrades(scannedUpgrades)) > 0
    /\ selectedUpgrades' =
          IF Cardinality(selectedUpgrades) = Len(PendingUpgrades(scannedUpgrades))
             THEN {}
             ELSE {UpgradeKey(u) : u \in Range(PendingUpgrades(scannedUpgrades))}
    /\ UNCHANGED <<isCreatingUpgrade, isUpgradeModalOpen, isBulkUpgradeModalOpen,
                   upgradeForm, upgradeInFlight, pullRequests>>
    /\ UpgradeUnchanged

\* handleStartAllUpgrades: forEach calls Versions.handleStartUpgrade for each
\* selected upgrade without awaiting it, so each call runs up to its await
StartAllUpgrades(pending, selected) ==
    LET upgradesToProcess ==
            SeqFilter(pending, LAMBDA upgrade : UpgradeKey(upgrade) \in selected)
    IN [i \in 1..Len(upgradesToProcess) |->
           UpgradeRequest(upgradesToProcess[i].repositoryId,
                          upgradesToProcess[i].technology,
                          upgradesToProcess[i].targetVersion)]

HandleStartAllUpgrades ==
    /\ page = "versions"
    /\ isBulkUpgradeModalOpen
    /\ selectedUpgrades # {}
    /\ ~UpgradeLoading
    /\ Len(PendingUpgrades(scannedUpgrades)) > 0
    /\ LET requests == StartAllUpgrades(PendingUpgrades(scannedUpgrades), selectedUpgrades)
       IN /\ Len(requests) > 0
          /\ RequestsFit(Len(requests))
          /\ isCreatingUpgrade' = TRUE
          /\ upgradeInFlight' = upgradeInFlight \o requests
    /\ selectedUpgrades' = {}
    /\ isBulkUpgradeModalOpen' = FALSE
    /\ UNCHANGED <<isUpgradeModalOpen, upgradeForm, pullRequests>>
    /\ UpgradeUnchanged

UpgradeOutcomes == {"success", "failure", "throws"}

\* Versions.handleStartUpgrade after its await: createUpgradePR settled
CreateUpgradeResponse(i, outcome) ==
    /\ page = "versions"
    /\ i \in 1..Len(upgradeInFlight)
    /\ pullRequests' = IF outcome = "success"
                          THEN Append(pullRequests, upgradeInFlight[i])
                          ELSE pullRequests
    /\ upgradeInFlight' = SubSeq(upgradeInFlight, 1, i - 1)
                              \o SubSeq(upgradeInFlight, i + 1, Len(upgradeInFlight))
    /\ isCreatingUpgrade' = FALSE
    /\ UNCHANGED <<isUpgradeModalOpen, isBulkUpgradeModalOpen, upgradeForm,
                   selectedUpgrades>>
    /\ UpgradeUnchanged

----------------------------------------------------------------------------
(* ErrorDialog (part_003).  A text is the sequence of its pieces, each      *)
(* piece a word with the blank that follows it, so that the text is the     *)
(* concatenation of the pieces and String.prototype.includes is the search  *)
(* for a contiguous run of pieces.                                          *)

\* String.prototype.includes
Includes(text, marker) ==
    \E i \in 0..(Len(text) - Len(marker)) : SubSeq(text, i + 1, i + Len(marker)) = marker

\* String.prototype.startsWith
StartsWith(text, prefix) ==
    Len(text) >= Len(prefix) /\ SubSeq(text, 1, Len(prefix)) = prefix

BranchForbidden == <<"Failed ", "to ", "create ", "branch: ", "Forbidden">>

NotAccessible ==
    <<"Resource ", "not ", "accessible ", "by ", "personal ", "access ", "token">>

PullRequestUnprocessable ==
    <<"Failed ", "to ", "create ", "pull ", "request: ", "Unprocessable ", "Entity">>

\* The pieces error messages are put together from: the three markers, the
\* start the branch and pull-request markers share, the rest of the
\* pull-request marker, a marker in other letter case, and other text
ErrorFragments ==
    {BranchForbidden,
     NotAccessible,
     PullRequestUnprocessable,
     <<"Failed ", "to ", "create ">>,
     <<"pull ", "request: ", "Unprocessable ", "Entity">>,
     <<"failed ", "to ", "create ", "branch: ", "forbidden">>,
     <<"Not ", "Found">>,
     <<"; ">>}

MaxFragments == 2

RECURSIVE Texts(_)
\* Every text of up to n fragments
Texts(n) ==
    IF n = 0 THEN {<<>>}
    ELSE Texts(n - 1) \cup {t \o f : t \in Texts(n - 1), f \in ErrorFragments}

\* repositoryName: not given (undefined and '' are both falsy), the owner's
\* own repository, and repositories of other owners
RepositoryNames ==
    {<<>>,
     <<"KetsHacathons/", "TechMandates">>,
     <<"octocat/", "hello-world">>,
     <<"ketshacathons/", "TechMandates">>,
     <<"KetsHacathons-fork/", "TechMandates">>}

ErrorDialogProps ==
    {[error |-> e, repositoryName |-> n] : e \in Texts(MaxFragments), n \in RepositoryNames}

\* What the dialog shows before it was rendered with props
NoDetails == [title |-> "", links |-> 0]

\* getErrorDetails with the pull-request check made first
getErrorDetailsConflictFirst(message, repositoryName) ==
    LET isExternalRepo ==
            repositoryName # <<>> /\ ~StartsWith(repositoryName, <<"KetsHacathons/">>)
    IN IF Includes(message, PullRequestUnprocessable)
          THEN [title |-> "Pull Request Creation Failed", links |-> 1]
       ELSE IF Includes(message, BranchForbidden) \/ Includes(message, NotAccessible)
          THEN IF isExternalRepo
                  THEN [title |-> "Cannot Fix External Repository", links |-> 2]
                  ELSE [title |-> "GitHub Token Permissions Error", links |-> 2]
       ELSE [title |-> "Vulnerability Fix Failed", links |-> 0]

\* getErrorDetails(error, repositoryName): the title and the number of links
\* of the result
getErrorDetails(message, repositoryName) ==
    LET isExternalRepo ==
            repositoryName # <<>> /\ ~StartsWith(repositoryName, <<"KetsHacathons/">>)
    IN IF Includes(message, BranchForbidden) \/ Includes(message, NotAccessible)
          THEN IF isExternalRepo
                  THEN [title |-> "Cannot Fix External Repository", links |-> 2]
                  ELSE [title |-> "GitHub Token Permissions Error", links |-> 2]
       ELSE IF Includes(message, PullRequestUnprocessable)
          THEN [title |-> "Pull Request Creation Failed", links |-> 1]
       ELSE IF Includes(message, NotAccessible)
          THEN [title |-> "Repository Access Denied",
                links |-> IF isExternalRepo THEN 1 ELSE 0]
       ELSE [title |-> "Vulnerability Fix Failed", links |-> 0]

\* ErrorDialog rendered with its props
ErrorDialogRender ==
    /\ page = "error-dialog"
    /\ errorDetails = NoDetails
    /\ errorDetails' = getErrorDetails(dialogProps.error, dialogProps.repositoryName)
    /\ UNCHANGED <<page, vulnVars, versionsVars, feedVars, scannerLoadedOn, upgradeVars,
                   coverageVars, improveVars, dialogProps, otherVars>>

----------------------------------------------------------------------------
(* The security-scan function's instance *)

\* The last day considered
LastDay == 2

\* The function is started anew on a later day: the module is evaluated
\* again, and with it every discoveredDate of mockVulnerabilities
ColdStart ==
    /\ page = "vulnerabilities"
    /\ scannerLoadedOn < LastDay
    /\ scannerLoadedOn' = scannerLoadedOn + 1
    /\ UNCHANGED <<page, vulnVars, versionsVars, feedVars, upgradeVars, coverageVars,
                   improveVars, dialogVars, otherVars>>

----------------------------------------------------------------------------
Pages == {"vulnerabilities", "versions", "dashboard"}


\* useState initial values of the Vulnerabilities page and its scan dialog
InitVulnerabilitiesList(lists) ==
    /\ repositories = AllRepositories
    /\ scannedVulnerabilities \in lists
    /\ isFixingVulnerability = NULL
    /\ errorDialog = [open |-> FALSE, error |-> ""]
    /\ fixInFlight = EmptyBag
    /\ selectedRepositories = <<>>
    /\ isScanning = FALSE
    /\ scanProgress = <<>>
    /\ progress = <<0, 1>>
    /\ scanRun = NoRun
    /\ scannerLoadedOn = 1

InitVulnerabilitiesState == InitVulnerabilitiesList({<<>>})

\* useState initial values of the Versions page and its dialogs; upgrades is
\* the upgrade list the page holds
InitVersionsState(upgrades) ==
    /\ scannedUpgrades = upgrades
    /\ isScanUpdatesOpen = FALSE
    /\ repositoryUpdates = <<>>
    /\ updatesScanning = FALSE
    /\ updatesProgress = <<0, 1>>
    /\ updatesRun = NoUpdatesRun
    /\ isCreatingUpgrade = FALSE
    /\ isUpgradeModalOpen = FALSE
    /\ isBulkUpgradeModalOpen = FALSE
    /\ upgradeForm = EmptyUpgradeForm
    /\ selectedUpgrades = {}
    /\ upgradeInFlight = <<>>
    /\ pullRequests = <<>>

\* The dashboard's feed before the first effect, over what localStorage and
\* the scan_results table hold
InitFeedState(profiles, tables) ==
    /\ user = NULL
    /\ mountUser = NULL
    /\ \E profile \in profiles :
          /\ localVulnerabilities = profile.vulnerabilities
          /\ localUpgrades = profile.upgrades
    /\ scanResults \in tables
    /\ activities = <<>>
    /\ loading = TRUE
    /\ error = NULL
    /\ fetchInFlight = <<>>
    /\ now = Instants[1]

NothingStored == {[vulnerabilities |-> <<>>, upgrades |-> <<>>]}

\* useState initial values of CoverageAnalysisModal
InitCoverageState ==
    /\ analysisSelected = <<>>
    /\ isAnalyzing = FALSE
    /\ analysisProgress = <<>>
    /\ analysisPercent = <<0, 1>>
    /\ analysisRun = NoAnalysisRun
    /\ analysisResults = <<>>

\* The improve-coverage function when a request arrives
InitImproveState(requests) ==
    /\ improveRequest \in requests
    /\ improveRun = NoImproveRun
    /\ improveResults = <<>>
    /\ improveResponse = NoResponse

\* The ErrorDialog before it is rendered with props
InitMetricsState == securityMetrics = NoMetrics

\* useState initial values of the ImproveCoverageModal
InitModalState ==
    /\ modalRepositories = <<>>
    /\ modalSelected = <<>>
    /\ isImproving = FALSE
    /\ improvements = NoImprovements
    /\ modalProgress = 0
    /\ improveInFlight = <<>>

\* The ApiClient constructor reads the stored token; useState initial
\* values of the AuthProvider
InitClientState(tokens) ==
    /\ storedToken \in tokens
    /\ accessToken = storedToken
    /\ authUser = NULL
    /\ authLoading = TRUE
    /\ authChecked = FALSE
    /\ authInFlight = <<>>

\* The maps of the module when it is loaded; localStorage may hold the
\* token of an earlier visit
InitSqliteState(tokens) ==
    /\ users = <<>>
    /\ sessions = <<>>
    /\ sqliteToken \in tokens
    /\ clock = 0
    /\ issued = 0
    /\ profileRows = {}
    /\ authResult = AuthReturn("none", NULL, NULL)

InitOtherState ==
    /\ InitMetricsState
    /\ InitModalState
    /\ InitClientState({NULL})
    /\ InitSqliteState({NoToken})

InitDialogState(props) ==
    /\ dialogProps \in props
    /\ errorDetails = NoDetails

NoRequest == {[repositories |-> <<>>, githubToken |-> FALSE]}

NoProps == {[error |-> <<>>, repositoryName |-> <<>>]}

Init ==
    /\ page \in Pages
    /\ InitVulnerabilitiesState
    /\ InitVersionsState(<<>>)
    /\ InitFeedState(IF page = "dashboard" THEN LocalProfiles ELSE NothingStored,
                     IF page = "dashboard" THEN ScanResultProfiles ELSE {<<>>})
    /\ InitCoverageState
    /\ InitImproveState(NoRequest)
    /\ InitDialogState(NoProps)
    /\ InitOtherState

NextFeed ==
    \/ Refetch
    \/ SignIn
    \/ SignOut
    \/ \E profile \in LocalProfiles : StorageEvent(profile)
    \/ Remount
    \/ \E i \in 1..Len(fetchInFlight), outcome \in {"ok", "error"},
          swapAt \in 0..1 : FetchResponse(i, outcome, swapAt)
    \/ \E owner \in Users : InsertScanResult(owner)
    \/ Advance

NextVersions ==
    \/ OpenScanUpdates
    \/ CloseScanUpdates
    \/ VersionsRender
    \/ ScanAllRepositories
    \/ \E o \in AllDetectOutcomes : DetectResponse(o)

NextVulnerabilities ==
    \/ \E r \in RepoIds : HandleRepositoryToggle(r)
    \/ SelectAllRepositories
    \/ DeselectAllRepositories
    \/ StartSecurityScan
    \/ \E o \in AllScanOutcomes : ScanResponse(o)
    \/ \E v \in Range(scannedVulnerabilities) : HandleFixVulnerability(v)
    \/ \E key \in BagToSet(fixInFlight), o \in FixOutcomes : FixResponse(key, o)
    \/ CloseErrorDialog

NextScans == NextVulnerabilities \/ NextVersions

InitVulnerabilities == Init /\ page = "vulnerabilities"

InitVersions == Init /\ page = "versions"

InitFeed == Init /\ page = "dashboard"

\* The Vulnerabilities page
Spec == InitVulnerabilities /\ [][NextVulnerabilities]_vars

\* The Versions page
SpecVersions == InitVersions /\ [][NextVersions]_vars

\* Either page with its scan dialog
InitScans == Init /\ page \in {"vulnerabilities", "versions"}

SpecScans == InitScans /\ [][NextScans]_vars

\* The dashboard's feed
SpecFeed == InitFeed /\ [][NextFeed]_vars

NextImprove ==
    \/ ImproveServe
    \/ \E o \in FetchOutcomes : RepoResponse(o)
    \/ \E o \in FetchOutcomes : BaseResponse(o)
    \/ \E o \in FetchOutcomes : CreateBranchResponse(o)
    \/ \E o \in FetchOutcomes, n \in SrcFileCounts : ContentsResponse(o, n)
    \/ \E o \in FetchOutcomes : PutFileResponse(o)
    \/ \E o \in FetchOutcomes : PullRequestResponse(o)

\* Everything but the piece a specification starts differently
InitImprove ==
    /\ page = "improve-coverage"
    /\ InitVulnerabilitiesState
    /\ InitVersionsState(<<>>)
    /\ InitFeedState(NothingStored, {<<>>})
    /\ InitCoverageState
    /\ InitImproveState(ImproveRequests)
    /\ InitDialogState(NoProps)
    /\ InitOtherState

\* The improve-coverage function serving one request
SpecImprove == InitImprove /\ [][NextImprove]_vars

\* The two scan dialogs, each on its page, with the repository list changing
\* under them
NextScanOrder ==
    \/ \E r \in RepoIds : HandleRepositoryToggle(r)
    \/ SelectAllRepositories
    \/ DeselectAllRepositories
    \/ StartSecurityScan
    \/ \E o \in AllScanOutcomes : ScanResponse(o)
    \/ \E r \in RepoIds : CoverageRepositoryToggle(r)
    \/ CoverageSelectAll
    \/ CoverageDeselectAll
    \/ StartCoverageAnalysis
    \/ \E c \in CoverageValues, p \in PreviousCoverageValues : CoverageTimer(c, p)
    \/ \E o \in CoverageOutcomes : CoverageScanResponse(o)
    \/ \E list \in RepositoryLists : RepositoriesFetched(list)

InitScanOrder ==
    /\ page \in {"vulnerabilities", "coverage"}
    /\ InitVulnerabilitiesState
    /\ InitVersionsState(<<>>)
    /\ InitFeedState(NothingStored, {<<>>})
    /\ InitCoverageState
    /\ InitImproveState(NoRequest)
    /\ InitDialogState(NoProps)
    /\ InitOtherState

SpecScanOrder == InitScanOrder /\ [][NextScanOrder]_vars

\* The metric cards of the page for the lists a scan may leave
NextMetrics == RenderMetrics

InitMetrics ==
    /\ page = "vulnerabilities"
    /\ InitVulnerabilitiesList(SeverityLists)
    /\ InitVersionsState(<<>>)
    /\ InitFeedState(NothingStored, {<<>>})
    /\ InitCoverageState
    /\ InitImproveState(NoRequest)
    /\ InitDialogState(NoProps)
    /\ InitOtherState

SpecMetrics == InitMetrics /\ [][NextMetrics]_vars

\* The ImproveCoverageModal of the Coverage page
NextImproveModal ==
    \/ \E r \in RepoIds : ImproveRepositoryToggle(r)
    \/ ImproveSelectAll
    \/ ImproveDeselectAll
    \/ \E list \in ModalRepositoryLists : ModalRepositoriesFetched(list)
    \/ StartCoverageImprovement
    \/ \E c \in 1..MaxImproveCalls, outcome \in ImproveCallOutcomes :
          \E succeeded \in SUBSET RepoIds : ImproveCoverageResponse(c, outcome, succeeded)
    \/ ImproveHandleClose

InitImproveModal ==
    /\ page = "coverage"
    /\ InitVulnerabilitiesState
    /\ InitVersionsState(<<>>)
    /\ InitFeedState(NothingStored, {<<>>})
    /\ InitCoverageState
    /\ InitImproveState(NoRequest)
    /\ InitDialogState(NoProps)
    /\ InitOtherState

SpecImproveModal == InitImproveModal /\ [][NextImproveModal]_vars

\* The API client and the AuthProvider, from the loading of the page
NextClient ==
    \/ CheckAuth
    \/ \E c \in 1..(MaxAuthCalls + 1), outcome \in AuthOutcomes :
          CheckAuthResponse(c, outcome)
    \/ \E endpoint \in {"/auth/login", "/auth/register"} : ProviderSign(endpoint)
    \/ \E c \in 1..(MaxAuthCalls + 1), outcome \in AuthOutcomes, token \in ResponseTokens :
          SignResponse(c, outcome, token)
    \/ ProviderSignOut

InitClient ==
    /\ page = "dashboard"
    /\ InitVulnerabilitiesState
    /\ InitVersionsState(<<>>)
    /\ InitFeedState(NothingStored, {<<>>})
    /\ InitCoverageState
    /\ InitImproveState(NoRequest)
    /\ InitDialogState(NoProps)
    /\ InitMetricsState
    /\ InitModalState
    /\ InitClientState(StoredTokens)
    /\ InitSqliteState({NoToken})

SpecClient == InitClient /\ [][NextClient]_vars

\* SQLiteAuth, from the loading of the module
NextSqliteAuth ==
    \/ \E email \in Emails, password \in Passwords, insert \in InsertOutcomes :
          SqliteSignUp(email, password, insert)
    \/ \E email \in Emails, password \in Passwords : SignInWithPassword(email, password)
    \/ SqliteSignOut
    \/ GetSession
    \/ \E token \in AllTokens : GetUser(token)
    \/ ClockTick

InitSqliteAuth ==
    /\ page = "dashboard"
    /\ InitVulnerabilitiesState
    /\ InitVersionsState(<<>>)
    /\ InitFeedState(NothingStored, {<<>>})
    /\ InitCoverageState
    /\ InitImproveState(NoRequest)
    /\ InitDialogState(NoProps)
    /\ InitMetricsState
    /\ InitModalState
    /\ InitClientState({NULL})
    /\ InitSqliteState({NoToken, Token(1)})

SpecSqliteAuth == InitSqliteAuth /\ [][NextSqliteAuth]_vars

NextUpgrades ==
    \/ OpenUpgradeModal
    \/ CloseUpgradeModal
    \/ \E r \in RepoIds : SetSelectedRepository(r)
    \/ \E t \in FormTechnologies : SetSelectedTechnology(t)
    \/ \E t \in FormTechnologies : \E v \in FormVersions(t) : SetSelectedVersion(v)
    \/ StartUpgrade
    \/ OpenBulkUpgradeModal
    \/ CancelBulkUpgrade
    \/ \E r \in RepoIds, t \in Range(relevantTechnologies), checked \in BOOLEAN :
          HandleUpgradeToggle(<<r, t>>, checked)
    \/ HandleSelectAll
    \/ HandleStartAllUpgrades
    \/ \E i \in 1..Len(upgradeInFlight), o \in UpgradeOutcomes : CreateUpgradeResponse(i, o)

InitUpgrades ==
    /\ page = "versions"
    /\ InitVulnerabilitiesState
    /\ \E upgrades \in UpgradeLists : InitVersionsState(upgrades)
    /\ InitFeedState(NothingStored, {<<>>})
    /\ InitCoverageState
    /\ InitImproveState(NoRequest)
    /\ InitDialogState(NoProps)
    /\ InitOtherState

\* The Versions page holding an upgrade list: upgrade requests
SpecUpgrades == InitUpgrades /\ [][NextUpgrades]_vars

NextErrors == ErrorDialogRender

InitErrors ==
    /\ page = "error-dialog"
    /\ InitVulnerabilitiesState
    /\ InitVersionsState(<<>>)
    /\ InitFeedState(NothingStored, {<<>>})
    /\ InitCoverageState
    /\ InitImproveState(NoRequest)
    /\ InitDialogState(ErrorDialogProps)
    /\ InitOtherState

\* The ErrorDialog rendered with an error
SpecErrors == InitErrors /\ [][NextErrors]_vars

NextDiscovery ==
    \/ \E r \in RepoIds : HandleRepositoryToggle(r)
    \/ SelectAllRepositories
    \/ DeselectAllRepositories
    \/ StartSecurityScan
    \/ \E o \in AllScanOutcomes : ScanResponse(o)
    \/ ColdStart

\* The Vulnerabilities page's scans over restarts of the scan function
SpecDiscovery == InitVulnerabilities /\ [][NextDiscovery]_vars

----------------------------------------------------------------------------
(* Properties of the Vulnerabilities page *)

FixSucceeded == [kind |-> "success", error |-> NULL]

\* The status a list holds for a natural key ("absent" when it holds none)
StatusOf(list, key) ==
    IF \E i \in 1..Len(list) : KeyOf(list[i]) = key
       THEN list[CHOOSE i \in 1..Len(list) : KeyOf(list[i]) = key].status
       ELSE "absent"

\* The list with exactly the finding of that repository and id in progress
OnlyThatInProgress(list, key) ==
    [i \in 1..Len(list) |->
        IF KeyOf(list[i]) = key
           THEN [list[i] EXCEPT !.status = "in-progress"]
           ELSE list[i]]

\* C1: when the fix call for a finding reports success, the finding with that
\* repository and id becomes in-progress and every other finding in the list
\* keeps its status.
C1_FixSuccessMarksOnlyThatFinding ==
    [][\A key \in FindingKeys :
          FixResponse(key, FixSucceeded) =>
              scannedVulnerabilities' = OnlyThatInProgress(scannedVulnerabilities, key)]_vars

\* The message the failed call carried: result.error or the thrown Error's
\* message, and the handler's own text when the response carried none
UnderlyingMessage(outcome) ==
    IF outcome.error # NULL THEN outcome.error ELSE "Failed to fix vulnerability"

\* C2: a fix call that fails (it throws, or answers success=false) leaves every
\* finding as it was, at the click and at the failure, and opens the error
\* dialog with the message of the failure.
C2_FixFailureKeepsOpenAndShowsError ==
    [][/\ \A v \in Range(scannedVulnerabilities) :
             HandleFixVulnerability(v) => scannedVulnerabilities' = scannedVulnerabilities
       /\ \A key \in BagToSet(fixInFlight), o \in FixOutcomes :
             (o.kind # "success" /\ FixResponse(key, o)) =>
                 /\ scannedVulnerabilities' = scannedVulnerabilities
                 /\ errorDialog'.open
                 /\ errorDialog'.error = UnderlyingMessage(o)]_vars

\* C2's case: a failure with the endpoint's message is on screen while the
\* list still holds an open finding
C2_Witness ==
    /\ errorDialog.open
    /\ errorDialog.error \in ErrorMessages
    /\ \E v \in Range(scannedVulnerabilities) : v.status = "open"

\* C3: no vulnerability ever has two fix requests in flight at once.
C3_OneFixInFlightPerVulnerability ==
    \A key \in FindingKeys : CopiesIn(key, fixInFlight) <= 1

\* C4: a finding that is in progress is never set back to open.
C4_InProgressNeverBackToOpen ==
    [][\A key \in FindingKeys :
          StatusOf(scannedVulnerabilities, key) = "in-progress" =>
              StatusOf(scannedVulnerabilities', key) # "open"]_vars

\* A scan run hands its results to the page in this step
ScanApplied == scanRun.idx # 0 /\ scanRun'.idx = 0

\* C5: when the results of a scan are applied, every finding of a repository
\* the scan did not cover is still in the list, unchanged.
C5_PartialScanKeepsUnscannedRepositories ==
    [][ScanApplied =>
          \A v \in Range(scannedVulnerabilities) :
              v.repositoryId \notin Range(scanRun.selected) =>
                  v \in Range(scannedVulnerabilities')]_vars

\* C6: a scan run in which the scanner call failed for some repository leaves
\* the vulnerability list as it was.
C6_FailedScanLeavesListUnchanged ==
    [][\A o \in AllScanOutcomes :
          (/\ ScanResponse(o)
           /\ ScanApplied
           /\ \/ o.kind # "ok"
              \/ \E i \in 1..Len(scanRun.outcomes) : scanRun.outcomes[i] # "ok") =>
              scannedVulnerabilities' = scannedVulnerabilities]_vars

----------------------------------------------------------------------------
(* Properties of the scans *)

NoTwoAlike(s) == \A i, j \in 1..Len(s) : i # j => s[i] # s[j]

UpgradeKeyOf(u) == <<u.repositoryId, u.technology>>

\* C7: no two vulnerabilities of the list share (repositoryId, id); no two
\* upgrades, in the list or in the results a scan would hand over, share
\* (repositoryId, technology); no scan response carries an id twice; no scan
\* run holds a repository twice.
C7_NaturalKeysUnique ==
    /\ NoTwoAlike(SeqMap(scannedVulnerabilities, KeyOf))
    /\ NoTwoAlike(SeqMap(scanRun.allResults, KeyOf))
    /\ NoTwoAlike(SeqMap(scannedUpgrades, UpgradeKeyOf))
    /\ NoTwoAlike(SeqMap(UpgradeResults(repositoryUpdates), UpgradeKeyOf))
    /\ \A i \in 1..Len(AllRepositories) :
          \A response \in ScanResponses(AllRepositories[i].language) : NoTwoAlike(response)
    /\ NoTwoAlike(selectedRepositories)
    /\ NoTwoAlike(scanRun.selected)

\* C7's case: after a scan of both repositories the list holds the same CVE
\* once for each of them
C7_Witness ==
    /\ scanRun = NoRun
    /\ \E i, j \in 1..Len(scannedVulnerabilities) :
          /\ scannedVulnerabilities[i].id = scannedVulnerabilities[j].id
          /\ scannedVulnerabilities[i].repositoryId # scannedVulnerabilities[j].repositoryId

----------------------------------------------------------------------------
(* Properties of the feed *)

ActivityIds(s) == SeqMap(s, LAMBDA a : a.id)

\* C8: the feed never holds two entries with the same id.
C8_FeedIdsUnique == NoTwoAlike(ActivityIds(activities))

\* C9: the feed never holds more than 20 entries.
C9_FeedAtMostTwenty == Len(activities) <= FeedLimit

\* C9's case: the feed is full while localStorage alone holds more entries
\* than the feed shows and a stored scan result heads the feed
C9_Witness ==
    /\ Len(activities) = FeedLimit
    /\ Len(localVulnerabilities) + Len(localUpgrades) > FeedLimit
    /\ activities[1].source = "database"

NewestFirst(s) == \A i, j \in 1..Len(s) : i < j => s[i].createdAt >= s[j].createdAt

\* The entries kept are the newest of the merged set
KeepsNewest(kept, merged) ==
    \A a \in Range(merged) \ Range(kept) :
        \A b \in Range(kept) : b.createdAt >= a.createdAt

InsertEvents ==
    {[id |-> ScanResultId(Len(scanResults) + 1), created_at |-> now, user_id |-> "u1"]}
        \cup (IF Len(scanResults) > 0 THEN {scanResults[Len(scanResults)]} ELSE {})

EntriesWithId(s, id) == Cardinality({i \in 1..Len(s) : s[i].id = id})

\* C16: for the feed of every reachable state, handling the same INSERT event
\* twice, at once or with the second delivery at a later instant, gives the
\* feed that handling it once gives, and that feed holds exactly one entry
\* with the event's id.
C16_InsertIdempotent ==
    \A row \in InsertEvents :
        \A k \in 1..Len(Instants) :
            Instants[k] >= now =>
                LET first == generateActivityFromScanResult(row, "database", now)
                    second == generateActivityFromScanResult(row, "database", Instants[k])
                    once == HandleInsert(activities, second)
                    twice == HandleInsert(HandleInsert(activities, first), second)
                IN /\ twice = once
                   /\ EntriesWithId(once, row.id) = 1

\* C16's case: the handler has put the activity of the row inserted last at
\* the head of a full feed that holds further database entries
C16_Witness ==
    /\ Len(scanResults) >= QueryLimit
    /\ Len(activities) = FeedLimit
    /\ activities[1].id = ScanResultId(Len(scanResults))
    /\ activities[2].source = "database"

\* C17: the step that handles a failed fix request clears
\* isFixingVulnerability and leaves the list as it is, so that every open
\* finding of the failed request has its Fix Now button enabled after the
\* step; and a step adds a fix request only when it is a click on Fix Now for
\* the finding of that request.
C17_FailedFixCanBeRetried ==
    [][/\ \A key \in BagToSet(fixInFlight), o \in FixOutcomes :
             (o.kind # "success" /\ FixResponse(key, o)) =>
                 /\ isFixingVulnerability' = NULL
                 /\ scannedVulnerabilities' = scannedVulnerabilities
                 /\ \A v \in Range(scannedVulnerabilities) :
                        (KeyOf(v) = key /\ v.status = "open") => FixButtonEnabled(v)'
                 /\ \A other \in FindingKeys :
                        CopiesIn(other, fixInFlight') <= CopiesIn(other, fixInFlight)
       /\ \A key \in FindingKeys :
             CopiesIn(key, fixInFlight') > CopiesIn(key, fixInFlight) =>
                 \E v \in Range(scannedVulnerabilities) :
                     KeyOf(v) = key /\ HandleFixVulnerability(v)]_vars

\* C17's case: a failure is on screen, and the one finding of the list, still
\* open, has a fix request in flight again
C17_Witness ==
    /\ errorDialog.open
    /\ Len(scannedVulnerabilities) = 1
    /\ scannedVulnerabilities[1].status = "open"
    /\ isFixingVulnerability = scannedVulnerabilities[1].id
    /\ fixInFlight = SetToBag({KeyOf(scannedVulnerabilities[1])})

\* The ids of the database activities of a fetchRecentActivity call
DatabaseIds(call) ==
    LET rows == QueryScanResults(scanResults, call.user)
    IN {rows[j].id : j \in 1..Len(rows)}

\* The number of different ids among the first i persisted activities: the
\* place the merge gives the i-th one's id
PlaceInMerge(persisted, i) == Cardinality({persisted[k].id : k \in 1..i})

----------------------------------------------------------------------------
(* Properties of the order of the scans *)

\* The progress entries of the two dialogs in one shape: busy is isScanning
\* (isAnalyzing), found tells that the repository was in the list when the
\* run began
ScanEntries ==
    [i \in 1..Len(scanProgress) |->
        [busy |-> scanProgress[i].isScanning,
         isComplete |-> scanProgress[i].isComplete,
         found |-> scanProgress[i].repositoryName # "Unknown"]]

AnalysisEntries ==
    [i \in 1..Len(analysisProgress) |->
        [busy |-> analysisProgress[i].isAnalyzing,
         isComplete |-> analysisProgress[i].isComplete,
         found |-> analysisProgress[i].repositoryName # "Unknown"]]

OneAtATime(entries) == Cardinality({i \in 1..Len(entries) : entries[i].busy}) <= 1

\* An entry that is being scanned or is complete has only complete entries
\* before it
InSelectionOrder(entries) ==
    \A i, j \in 1..Len(entries) :
        (i < j /\ (entries[j].busy \/ entries[j].isComplete)) => entries[i].isComplete

\* The same, for the entries before it whose repository was found
FoundInSelectionOrder(entries) ==
    \A i, j \in 1..Len(entries) :
        (i < j /\ entries[i].found /\ (entries[j].busy \/ entries[j].isComplete))
            => entries[i].isComplete

\* C18 as stated: in both dialogs at most one progress entry is being scanned
\* (analyzed), and an entry is being scanned or complete only when every
\* entry selected before it is complete.
C18_OneAtATimeInSelectionOrder ==
    /\ OneAtATime(ScanEntries) /\ InSelectionOrder(ScanEntries)
    /\ OneAtATime(AnalysisEntries) /\ InSelectionOrder(AnalysisEntries)

\* C18 amended: in both dialogs at most one progress entry is being scanned
\* (analyzed), and an entry is being scanned or complete only when every
\* entry selected before it whose repository was found in the list is
\* complete; a selected repository that is not in the list is passed over
\* and never marked complete.
C18_OneAtATimeFoundInSelectionOrder ==
    /\ OneAtATime(ScanEntries) /\ FoundInSelectionOrder(ScanEntries)
    /\ OneAtATime(AnalysisEntries) /\ FoundInSelectionOrder(AnalysisEntries)

\* C18's case: the second selected repository is being scanned after the
\* first, found in the list, was marked complete
C18_Witness ==
    /\ Len(scanProgress) = 2
    /\ ScanEntries[1].found /\ ScanEntries[1].isComplete /\ ~ScanEntries[1].busy
    /\ ScanEntries[2].busy /\ ~ScanEntries[2].isComplete

----------------------------------------------------------------------------
(* Properties of the metric cards *)

\* The number of listed findings of a severity
Listed(severity) ==
    Cardinality({i \in 1..Len(scannedVulnerabilities) :
                    scannedVulnerabilities[i].severity = severity})

\* 100 - 30*critical - 15*high - 5*medium - 1*low
WeightedScore ==
    100 - 30 * Listed("critical") - 15 * Listed("high") - 5 * Listed("medium")
        - 1 * Listed("low")

\* The grades from worst to best
GradeRank(grade) ==
    CHOOSE k \in 1..8 : <<"F", "D", "C", "C+", "B", "B+", "A", "A+">>[k] = grade

\* C21: the cards rendered for a non-empty list show the score
\* max(0, 100 - 30*critical - 15*high - 5*medium - 1*low), an integer in
\* 0..100, and the grade of that score; and of two scores in 0..100 the
\* higher one never has the worse grade.
C21_SecurityScore ==
    /\ (securityMetrics.scored /\ Len(scannedVulnerabilities) > 0) =>
           /\ securityMetrics.score = (IF WeightedScore > 0 THEN WeightedScore ELSE 0)
           /\ securityMetrics.score \in 0..100
           /\ securityMetrics.grade = getScoreGrade(securityMetrics.score)
    /\ \A score \in 0..99 :
           GradeRank(getScoreGrade(score)) <= GradeRank(getScoreGrade(score + 1))

\* C21's case: the cards of a list whose weighted score is below zero
C21_Witness ==
    /\ securityMetrics.scored
    /\ WeightedScore < 0
    /\ securityMetrics.score = 0
    /\ securityMetrics.grade = "F"

----------------------------------------------------------------------------
(* Properties of the end of a run *)

\* startSecurityScan reaches its end in this step: after the last call
\* settled, or at once when no selected repository is in the list
ScanRunFinishes ==
    \/ ScanApplied
    \/ StartSecurityScan /\ scanRun' = NoRun

\* The entries of scanProgress are those of the selection, in its order
EntriesOfSelection(entries, selected) ==
    /\ Len(entries) = Len(selected)
    /\ \A i \in 1..Len(entries) : entries[i].repositoryId = selected[i]

\* C22 as stated: when startSecurityScan finishes, isScanning is false, the
\* progress is 100 and every selected repository has a progress entry that is
\* complete and not scanning.
C22_ScanRunComplete ==
    [][ScanRunFinishes =>
          /\ ~isScanning'
          /\ progress'[1] = progress'[2]
          /\ EntriesOfSelection(scanProgress', selectedRepositories)
          /\ \A i \in 1..Len(scanProgress') :
                 scanProgress'[i].isComplete /\ ~scanProgress'[i].isScanning]_vars

\* C22 amended: when startSecurityScan finishes, isScanning is false, no
\* entry is scanning, the entries that are complete are those of the selected
\* repositories found in the list, and the progress is the share of these
\* among the selected: 100 only when every selected repository was found.
C22_ScanRunCompleteForFound ==
    [][ScanRunFinishes =>
          /\ ~isScanning'
          /\ EntriesOfSelection(scanProgress', selectedRepositories)
          /\ \A i \in 1..Len(scanProgress') :
                 /\ ~scanProgress'[i].isScanning
                 /\ scanProgress'[i].isComplete
                        <=> scanProgress'[i].repositoryName # "Unknown"
          /\ progress'[1] * Len(selectedRepositories) =
                 progress'[2] * Cardinality({i \in 1..Len(scanProgress') :
                                                scanProgress'[i].isComplete})]_vars

\* C22's case: a run of two selected repositories is over; one was scanned
\* and found clean or failed, the other was not in the list
C22_Witness ==
    /\ page = "vulnerabilities"
    /\ ~isScanning
    /\ scanRun = NoRun
    /\ progress = <<1, 2>>
    /\ Len(scanProgress) = 2
    /\ \E i, j \in 1..2 :
          /\ scanProgress[i].isComplete /\ scanProgress[i].vulnerabilitiesFound = 0
          /\ ~scanProgress[j].isComplete /\ scanProgress[j].repositoryName = "Unknown"

\* The place of a status on the way pending -> analyzing -> generating ->
\* completed | error
StatusRank(status) ==
    CASE status = "pending" -> 0
      [] status = "analyzing" -> 1
      [] status = "generating" -> 2
      [] status \in {"completed", "error"} -> 3

Terminal(improvement) ==
    improvement.status \in {"completed", "error"} /\ improvement.progress = 100

----------------------------------------------------------------------------
(* Properties of the API client's token *)

\* C24: the API client's access token and the one stored under
\* 'access_token' in localStorage agree, both absent or both the same token,
\* after any sequence of register, login, logout and the start-up check.
C24_TokensAgree == accessToken = storedToken

----------------------------------------------------------------------------
(* Properties of SQLiteAuth *)

\* C25: after signOut, getSession returns no user and getUser(t) returns no
\* user for every access token t created by an earlier sign-in.
C25_SignOutEndsEverySession ==
    [][(authResult'.op = "signOut" /\ SqliteSignOut)
          => /\ getCurrentSession(sessions', sqliteToken', clock').user = NULL
             /\ \A n \in 1..issued : getUser(sessions', Token(n)).user = NULL]_vars

\* C26: a lookup of an expired session, by getSession or by getUser(token),
\* returns no user and removes the session from the sessions map.
C26_ExpiredNeverAuthenticates ==
    [][/\ \A token \in DOMAIN sessions :
             (/\ sessions[token].expires_at < clock
              /\ authResult'.op = "getUser"
              /\ GetUser(token))
             => authResult'.user = NULL /\ token \notin DOMAIN sessions'
       /\ (/\ sqliteToken \in DOMAIN sessions
           /\ sessions[sqliteToken].expires_at < clock
           /\ authResult'.op = "getSession"
           /\ GetSession)
             => authResult'.user = NULL /\ sqliteToken \notin DOMAIN sessions']_vars

\* C27: a signUp that returns an error leaves the users map as it was.
C27_SignUpAllOrNothing ==
    [][\A email \in Emails, password \in Passwords, insert \in InsertOutcomes :
          (/\ authResult'.op = "signUp"
           /\ authResult'.error # NULL
           /\ SqliteSignUp(email, password, insert))
          => users' = users]_vars

----------------------------------------------------------------------------
(* Properties of the upgrade results *)

\* repositoryUpdates once the last call of a run has settled with outcome
UpdatesAtEnd(outcome) ==
    IF outcome.kind = "detected" /\ outcome.currentVersion # NULL
       THEN StoreDetected(repositoryUpdates, updatesRun.repoIndex,
                          relevantTechnologies[updatesRun.techIndex],
                          outcome.currentVersion)
       ELSE repositoryUpdates

----------------------------------------------------------------------------
(* Properties of the improve-coverage function *)

ResultIds(rs) == SeqMap(rs, LAMBDA r : r.repositoryId)

InputIds == SeqMap(improveRequest.repositories, LAMBDA r : r.id)

\* C11: while the handler runs, results holds one entry for each repository
\* of the input before the current one, in input order, whatever failed; the
\* response with the results list is returned only after the last repository
\* and holds exactly one entry per input repository, in input order.
C11_OneResultPerRepositoryInOrder ==
    /\ improveRun.step \notin {"idle", "done"} =>
          ResultIds(improveResults) = SubSeq(InputIds, 1, improveRun.idx - 1)
    /\ improveResponse.status = 200 =>
          /\ ResultIds(improveResponse.results) = InputIds
          /\ Len(improveRun.vcs) = Len(InputIds)

\* C11's case: the first repository failed in the catch block, the second was
\* processed and got its pull request
C11_Witness ==
    /\ improveResponse.status = 200
    /\ Len(improveResponse.results) = 2
    /\ ~improveResponse.results[1].success
    /\ improveResponse.results[1].error = FetchFailed
    /\ improveResponse.results[2].success

\* C19: for every repository of the request, the pull request is requested
\* only when the branch was created; when reading the base branch or creating
\* the branch was rejected, no test file is put or written, no pull request
\* is requested, and the repository's result is a failure.
C19_PullRequestOnlyAfterBranch ==
    \A i \in 1..Len(improveRun.vcs) :
        LET calls == improveRun.vcs[i]
        IN /\ calls.pullRequested => calls.branch = "created"
           /\ (calls.base = "rejected" \/ calls.branch = "rejected") =>
                 /\ calls.filesPut = 0
                 /\ calls.filesWritten = 0
                 /\ ~calls.pullRequested
                 /\ i <= Len(improveResults) => ~improveResults[i].success

----------------------------------------------------------------------------
(* Properties of the upgrade requests *)

IssuedRequests ==
    IF Len(upgradeInFlight') > Len(upgradeInFlight)
       THEN SubSeq(upgradeInFlight', Len(upgradeInFlight) + 1, Len(upgradeInFlight'))
       ELSE <<>>

HasPullRequest(key) == \E j \in 1..Len(pullRequests) : UpgradeKey(pullRequests[j]) = key

----------------------------------------------------------------------------
(* Properties of the ErrorDialog *)

PermissionTitles == {"Cannot Fix External Repository", "GitHub Token Permissions Error"}

HasPermissionMarker(text) == Includes(text, BranchForbidden) \/ Includes(text, NotAccessible)

\* C14: the details shown for an error that contains 'Failed to create
\* branch: Forbidden' or 'Resource not accessible by personal access token'
\* are a permission result, also when it contains the pull-request marker;
\* for an error with only 'Failed to create pull request: Unprocessable
\* Entity' they are the conflict result; for every other error the generic
\* result.
C14_ErrorClassification ==
    errorDetails # NoDetails =>
        /\ HasPermissionMarker(dialogProps.error) => errorDetails.title \in PermissionTitles
        /\ (~HasPermissionMarker(dialogProps.error)
               /\ Includes(dialogProps.error, PullRequestUnprocessable)) =>
              errorDetails.title = "Pull Request Creation Failed"
        /\ (~HasPermissionMarker(dialogProps.error)
               /\ ~Includes(dialogProps.error, PullRequestUnprocessable)) =>
              errorDetails.title = "Vulnerability Fix Failed"

\* C14's case: an error with a permission marker and the pull-request marker
\* is shown as a permission error
C14_Witness ==
    /\ errorDetails.title \in PermissionTitles
    /\ HasPermissionMarker(dialogProps.error)
    /\ Includes(dialogProps.error, PullRequestUnprocessable)

----------------------------------------------------------------------------
(* Properties of the discovery date *)

\* C15: a finding the list holds before and after a step, by repository and
\* id, has the same discoveredDate after the step as before.
C15_DiscoveryDateFixed ==
    [][\A v \in Range(scannedVulnerabilities), w \in Range(scannedVulnerabilities') :
          KeyOf(v) = KeyOf(w) => w.discoveredDate = v.discoveredDate]_vars

====
